---- MODULE Spec2Model ----
(***************************************************************************)
(* A model of the extraction pipeline of InvestAI:                         *)
(*   - the dedup scan of OptimizedInvestmentSystem._load_news_batch        *)
(*     (src/main.py),                                                       *)
(*   - SmartCache (src/core/cache/smart_cache.py),                          *)
(*   - the batch extraction engine _process_news_batch with its parser and *)
(*     per-item fallback (src/main.py, src/core/agents/event_extractor.py), *)
(*   - QwenModelClient.get_completion (src/core/llm_core/model_client.py), *)
(*   - JSONUtils.safe_json_parse (src/core/utils/json_utils.py),            *)
(*   - PrioritySystem (src/core/processing/priority_system.py),             *)
(*   - QualityAssurance.validate_event_extraction and                       *)
(*     validate_portfolio_optimization                                      *)
(*     (src/core/quality/quality_assurance.py),                             *)
(*   - PerformanceMonitor's sampler thread                                  *)
(*     (src/core/monitoring/performance_monitor.py),                        *)
(*   - the batch driver _batch_extract_events (src/main.py).                *)
(* Each component has its own specification (SpecLoad, SpecCache,           *)
(* SpecBatch, SpecGateway, SpecRepair, SpecPriority, SpecQuality,           *)
(* SpecMonitor, SpecDriver, SpecPortfolio); Spec runs any one of them.      *)
(***************************************************************************)
EXTENDS Integers, Sequences, FiniteSets, TLC

VARIABLES
    \* ---- _load_news_batch (src/main.py:123-183), use_cache = False ----
    size,              \* the caller-supplied target count
    scanned,           \* the items the generator has yielded so far, in order
    all_news,          \* the unique items kept
    news_count,        \* items scanned
    duplicate_count,   \* items discarded as duplicates
    processed_ids,     \* ids of the kept items
    processed_hashes,  \* content hashes of the kept items
    loadPc,            \* "idle" | "loop" | "done"
    \* ---- SmartCache (src/core/cache/smart_cache.py) ----
    cache,             \* the diskcache store: key -> [value, expire_time] or NoEntry
    stats,             \* self.stats: hits, misses, sets
    now,               \* time.time()
    ticks,             \* how often the clock has advanced
    opCount,           \* calls made on the cache so far
    lastOp,            \* the most recent call on the cache
    prevOp,            \* the call before it
    lookups,           \* get and get_or_compute calls made so far
    cache_stats,       \* what get_stats() returned, while it is the most recent call
    \* ---- _process_news_batch (src/main.py:255-385) ----
    news_batch,        \* the batch of items
    batchPc,           \* "idle" | "pending" | "prompted" | "parsed" | "fallback" | "done"
    batchShape,        \* how the oracle built its answer to the batch prompt
    batchResponse,     \* the text of that answer
    events,            \* the events returned (all_events while the fallback runs)
    batchCalls,        \* llm_call invocations with the batch prompt
    singleOrder,       \* positions of the items sent to single-item extraction
    schemaAnswers,     \* per such item: the oracle answered with the object the prompt asks for
    parseRaised,       \* _parse_batch_response raised
    llm_calls,         \* performance_monitor.record_llm_call() count
    \* ---- QwenModelClient.get_completion (src/core/llm_core/model_client.py) ----
    llmCache,          \* self.cache: cache_key -> response_text
    storedBy,          \* for each cache_key, the request that stored its entry
    lastRequest,       \* the most recent get_completion call and what it returned
    requests,          \* get_completion calls made so far
    \* ---- JSONUtils.safe_json_parse (src/core/utils/json_utils.py) ----
    json_str,          \* the input text
    cleaned_text,      \* the text as the pipeline has rewritten it so far
    repairPc,          \* "idle" | "start" | "cleaned" | "fixed" | "failed" | "returned"
    repairResult,      \* what safe_json_parse returned
    \* ---- PrioritySystem.prioritize_events (src/core/processing/priority_system.py) ----
    prioInput,         \* the events passed in
    scored_events,     \* the scored copies, in the order the list holds them
    prioPc,            \* "idle" | "scoring" | "returned" | "raised"
    \* ---- QualityAssurance.validate_event_extraction (src/core/quality/quality_assurance.py) ----
    gateInput,         \* the records as they were passed in
    gateEvents,        \* the records as the gate holds them
    gateIdx,           \* records the loop has visited
    valid_count,       \* records without errors so far
    errors,            \* the error list
    quality_metrics,   \* self.quality_metrics["event_extraction_quality"]
    gateResult,        \* is_valid once returned
    gatePc,            \* "idle" | "loop" | "returned" | "raised"
    \* ---- PerformanceMonitor (src/core/monitoring/performance_monitor.py) ----
    _stop_monitoring,  \* self._stop_monitoring
    _monitoring_thread,\* self._monitoring_thread: the thread started last, or NoThread
    threadPc,          \* each sampler thread: "unborn" | "check" | "record" | "sleep" | "done"
    samples,           \* samples appended to self.metrics so far
    callerPc,          \* the calling thread: "idle" | "joining"
    monitorState,      \* "fresh" | "started" | "stopping" | "stopped"
    starts,            \* start_monitoring calls so far
    \* ---- _batch_extract_events (src/main.py:214-251) ----
    news_items,        \* the item list handed in
    batch_size,        \* the batch_size argument
    batch_num,         \* the loop variable: batches processed so far
    extracted,         \* all_events: the events of the batches processed so far
    batchLog,          \* per _process_news_batch call: the batch and the events returned
    driverResult,      \* the returned dict (events_data in run)
    driverPc,          \* "idle" | "loop" | "returned"
    \* ---- validate_portfolio_optimization (quality_assurance.py:88-113, 175-195) ----
    optimization,      \* the payload handed in
    portErrors,        \* errors
    allocIdx,          \* entries of target_allocation _check_allocation_sum has seen
    total_weight,      \* its running sum
    portResult,        \* is_valid once returned
    portPc,            \* "idle" | "fields" | "sum" | "returned"
    \* ---- AsyncProcessingEngine.process_batch_async (src/core/processing/async_engine.py) ----
    asyncItems,        \* items
    max_workers,       \* self.max_workers
    asyncBatchSize,    \* batch_size
    semaphore,         \* the permits self.semaphore has left
    taskPc,            \* each task: "created" | "waiting" | "running" | "processed" | "done"
    taskKey,           \* each task's cache_key, NoKey before it is computed
    llm_cache,         \* the entries of llm_cache
    invoked,           \* the tasks whose item process_func was called on, in call order
    taskResult,        \* what process_func ended with, then what the task returned
    \* ---- get_completion_with_retry (src/core/llm_core/model_client.py:167-196) ----
    max_retries,       \* the max_retries argument
    attempt,           \* the loop variable: turns that have failed so far
    retryLog,          \* what each get_completion call ended with
    retryResult,       \* the text returned
    retryPc            \* "idle" | "loop" | "returned"

loadVars == <<size, scanned, all_news, news_count, duplicate_count,
              processed_ids, processed_hashes, loadPc>>

cacheVars == <<cache, stats, now, ticks, opCount, lastOp, prevOp, lookups, cache_stats>>

batchVars == <<news_batch, batchPc, batchShape, batchResponse, events, batchCalls,
               singleOrder, schemaAnswers, parseRaised, llm_calls>>

gatewayVars == <<llmCache, storedBy, lastRequest, requests>>

repairVars == <<json_str, cleaned_text, repairPc, repairResult>>

priorityVars == <<prioInput, scored_events, prioPc>>

qualityVars == <<gateInput, gateEvents, gateIdx, valid_count, errors, quality_metrics,
                 gateResult, gatePc>>

toolVars == <<gatewayVars, repairVars, priorityVars, qualityVars>>

monitorVars == <<_stop_monitoring, _monitoring_thread, threadPc, samples, callerPc,
                 monitorState, starts>>

driverVars == <<news_items, batch_size, batch_num, extracted, batchLog, driverResult,
                driverPc>>

\* the components after the tools, and for each of them the variables of
\* all the other components
portfolioVars == <<optimization, portErrors, allocIdx, total_weight, portResult, portPc>>

asyncVars == <<asyncItems, max_workers, asyncBatchSize, semaphore, taskPc, taskKey,
               llm_cache, invoked, taskResult>>

retryVars == <<max_retries, attempt, retryLog, retryResult, retryPc>>

endVars == <<asyncVars, retryVars>>

lateVars == <<monitorVars, driverVars, portfolioVars, endVars>>
notMonitorVars ==
    <<loadVars, cacheVars, batchVars, toolVars, driverVars, portfolioVars, endVars>>
notDriverVars ==
    <<loadVars, cacheVars, batchVars, toolVars, monitorVars, portfolioVars, endVars>>
notPortfolioVars ==
    <<loadVars, cacheVars, batchVars, toolVars, monitorVars, driverVars, endVars>>
notAsyncVars ==
    <<loadVars, cacheVars, batchVars, toolVars, monitorVars, driverVars, portfolioVars,
      retryVars>>
notRetryVars ==
    <<loadVars, cacheVars, batchVars, toolVars, monitorVars, driverVars, portfolioVars,
      asyncVars>>

vars == <<loadVars, cacheVars, batchVars, toolVars, lateVars>>

(***************************************************************************)
(* Bounds of the model.                                                    *)
(***************************************************************************)
MaxSource == 4      \* longest source the generator yields
MaxSize == 2        \* largest target count a caller passes
MaxId == 2          \* declared ids are 1..MaxId; EmptyId is the falsy id
NumContents == 3    \* distinct content strings 0..NumContents-1
HashBuckets == NumContents - 1   \* fewer fingerprints than contents: collisions
MaxCacheOps == 3    \* calls made on a SmartCache
MaxTicks == 1       \* clock advances
MaxBatch == 2       \* items in a batch
MaxElems == 2       \* elements in the batch_events list of a response
MaxRequests == 2    \* get_completion calls in a run
MaxMembers == 2     \* members of the objects safe_json_parse is given
MaxEvents == 2      \* events passed to prioritize_events
MaxRecords == 10    \* records passed to validate_event_extraction
MaxStarts == 3      \* start_monitoring calls in a run
MaxSamples == 2     \* metric samples counted
MaxItems == 5       \* items handed to _batch_extract_events
MaxBatchSize == 3   \* its batch_size argument
MaxBatchEvents == 2 \* events one _process_news_batch call returns
MaxAssets == 2      \* asset classes of a target_allocation
MaxTasks == 2       \* items handed to process_batch_async
MaxWorkers == 2     \* max_workers of the engine
MaxRetries == 3     \* the max_retries argument

(***************************************************************************)
(* Items and their content fingerprint.                                    *)
(***************************************************************************)
\* An id that Python treats as falsy ('' / None / missing): `if news_id`.
EmptyId == 0

\* The items a source can hold: id (possibly empty) and content string.
NewsItems == [id : 0..MaxId, content : 0..(NumContents - 1)]

\* hashlib.md5(content.encode()).hexdigest(): a deterministic function of the
\* content string onto a smaller fingerprint space.
_get_content_hash(content) == content % HashBuckets

\* `if news_id and news_id in processed_ids`
IdSeen(news, ids) == news.id # EmptyId /\ news.id \in ids

\* `if content_hash in processed_hashes` (never detected)
HashSeenNever(news, hashes) == FALSE

\* `if content_hash in processed_hashes` (any earlier hash counts)
HashSeenAny(news, hashes) == hashes # {}

\* `if content_hash in processed_hashes`
HashSeen(news, hashes) == _get_content_hash(news.content) \in hashes

\* Only the id branch counts its duplicates.
NextDuplicateCountIdOnly(dc, news, ids, hashes) ==
    IF IdSeen(news, ids) THEN dc + 1 ELSE dc

\* duplicate_count += 1 on either `continue` branch
NextDuplicateCount(dc, news, ids, hashes) ==
    IF IdSeen(news, ids) \/ HashSeen(news, hashes) THEN dc + 1 ELSE dc

\* `if len(all_news) >= size: break`
StopLoading(kept, n) == Len(kept) >= n

\* No scan is running (the component is not exercised).
LoadIdle ==
    /\ size = 0
    /\ scanned = <<>>
    /\ all_news = <<>>
    /\ news_count = 0
    /\ duplicate_count = 0
    /\ processed_ids = {}
    /\ processed_hashes = {}
    /\ loadPc = "idle"

\* _load_news_batch(size, use_cache=False) up to the head of the loop.
LoadStart ==
    /\ size \in 0..MaxSize
    /\ scanned = <<>>
    /\ all_news = <<>>
    /\ news_count = 0
    /\ duplicate_count = 0
    /\ processed_ids = {}
    /\ processed_hashes = {}
    /\ loadPc = "loop"

\* One iteration of `for news in self.news_loader.load_news_generator(...)`.
LoadIter ==
    /\ loadPc = "loop"
    /\ Len(scanned) < MaxSource
    /\ \E news \in NewsItems :
        /\ scanned' = Append(scanned, news)
        /\ news_count' = news_count + 1
        /\ duplicate_count' =
              NextDuplicateCount(duplicate_count, news, processed_ids, processed_hashes)
        /\ IF IdSeen(news, processed_ids) \/ HashSeen(news, processed_hashes)
           THEN \* continue
                /\ UNCHANGED <<all_news, processed_ids, processed_hashes>>
                /\ loadPc' = "loop"
           ELSE /\ all_news' = Append(all_news, news)
                /\ processed_ids' = IF news.id # EmptyId
                                    THEN processed_ids \cup {news.id}
                                    ELSE processed_ids
                /\ processed_hashes' =
                      processed_hashes \cup {_get_content_hash(news.content)}
                /\ loadPc' = IF StopLoading(all_news', size) THEN "done" ELSE "loop"
    /\ UNCHANGED <<size, cacheVars, batchVars, toolVars, lateVars>>

\* The generator is exhausted: the loop ends and all_news is returned.
LoadExhausted ==
    /\ loadPc = "loop"
    /\ loadPc' = "done"
    /\ UNCHANGED <<size, scanned, all_news, news_count, duplicate_count,
                   processed_ids, processed_hashes, cacheVars, batchVars, toolVars, lateVars>>

(***************************************************************************)
(* SmartCache over a diskcache store.                                      *)
(***************************************************************************)
CacheKeys == {"k1", "k2"}

\* Python's None: what cache.get returns for a missing or expired key, and a
\* value a compute function may return.
NoneValue == "<None>"

\* Values a caller stores or a compute function returns: None, an empty
\* value, a non-empty value.
CacheValues == {NoneValue, "", "v"}

\* `ttl: Optional[int] = None` (None and 0 are both falsy in `ttl or ...`).
NoTtl == 0
\* data_cache = SmartCache("./data/cache/data", default_ttl=3600)
default_ttl == 3600
\* data_cache.set(cache_key, all_news, ttl=1800)
NewsTtl == 1800

TtlChoices == {NoTtl, NewsTtl}
TickSteps == {NewsTtl, default_ttl}

NoEntry == [present |-> FALSE, value |-> NoneValue, expire_time |-> 0]
NoOp == [op |-> "none", key |-> "", computed |-> FALSE, result |-> NoneValue,
         at |-> 0, expire_time |-> 0]

\* get_stats has not been called
NoStats == [called |-> FALSE, hits |-> 0, misses |-> 0, sets |-> 0, hit_ratio |-> 0]

\* The state of a SmartCache on an empty cache directory after __init__.
CacheFresh ==
    /\ cache = [k \in CacheKeys |-> NoEntry]
    /\ stats = [hits |-> 0, misses |-> 0, sets |-> 0]
    /\ now = 0
    /\ ticks = 0
    /\ opCount = 0
    /\ lastOp = NoOp
    /\ prevOp = NoOp
    /\ lookups = 0
    /\ cache_stats = NoStats

\* diskcache Cache.get(key): the stored value unless missing or expired.
DiskGet(store, key, t) ==
    IF store[key].present /\ store[key].expire_time > t
    THEN store[key].value
    ELSE NoneValue

\* diskcache Cache.set(key, value, expire=ttl)
DiskSet(store, key, value, ttl, t) ==
    [store EXCEPT ![key] = [present |-> TRUE, value |-> value, expire_time |-> t + ttl]]

\* `ttl = ttl or self.default_ttl`
EffectiveTtl(ttl) == IF ttl # NoTtl THEN ttl ELSE default_ttl

\* `if result is not None` in SmartCache.get / `if cached is not None` in
\* get_or_compute
IsHit(result) == result # NoneValue

\* self.stats after SmartCache.get returned `result`
StatsCountHitsOnly(st, result) ==
    IF IsHit(result) THEN [st EXCEPT !.hits = @ + 1] ELSE st
StatsAfterGet(st, result) ==
    IF IsHit(result) THEN [st EXCEPT !.hits = @ + 1]
                     ELSE [st EXCEPT !.misses = @ + 1]

Record(op) ==
    /\ prevOp' = lastOp
    /\ lastOp' = op
    /\ opCount' = opCount + 1
    /\ cache_stats' = NoStats

\* SmartCache.get(key)
CacheGet ==
    /\ opCount < MaxCacheOps
    /\ \E key \in CacheKeys :
        LET result == DiskGet(cache, key, now) IN
        /\ stats' = StatsAfterGet(stats, result)
        /\ Record([op |-> "get", key |-> key, computed |-> FALSE, result |-> result,
                   at |-> now, expire_time |-> cache[key].expire_time])
    /\ lookups' = lookups + 1
    /\ UNCHANGED <<cache, now, ticks, loadVars, batchVars, toolVars, lateVars>>

\* SmartCache.set(key, value, ttl)
CacheSet ==
    /\ opCount < MaxCacheOps
    /\ \E key \in CacheKeys, value \in CacheValues, ttl \in TtlChoices :
        /\ cache' = DiskSet(cache, key, value, EffectiveTtl(ttl), now)
        /\ stats' = [stats EXCEPT !.sets = @ + 1]
        /\ Record([op |-> "set", key |-> key, computed |-> FALSE, result |-> value,
                   at |-> now, expire_time |-> now + EffectiveTtl(ttl)])
    /\ UNCHANGED <<now, ticks, lookups, loadVars, batchVars, toolVars, lateVars>>

\* SmartCache.get_or_compute(key, compute_func, ttl); `value` is what
\* compute_func returns when it is invoked.
CacheGetOrCompute ==
    /\ opCount < MaxCacheOps
    /\ \E key \in CacheKeys, value \in CacheValues, ttl \in TtlChoices :
        LET cached == DiskGet(cache, key, now) IN
        IF IsHit(cached)
        THEN /\ stats' = StatsAfterGet(stats, cached)
             /\ cache' = cache
             /\ Record([op |-> "goc", key |-> key, computed |-> FALSE,
                        result |-> cached, at |-> now,
                        expire_time |-> cache[key].expire_time])
        ELSE /\ stats' = [StatsAfterGet(stats, cached) EXCEPT !.sets = @ + 1]
             /\ cache' = DiskSet(cache, key, value, EffectiveTtl(ttl), now)
             /\ Record([op |-> "goc", key |-> key, computed |-> TRUE,
                        result |-> value, at |-> now,
                        expire_time |-> now + EffectiveTtl(ttl)])
    /\ lookups' = lookups + 1
    /\ UNCHANGED <<now, ticks, loadVars, batchVars, toolVars, lateVars>>

\* SmartCache.clear_expired(): diskcache drops the entries past expiry.
CacheClearExpired ==
    /\ opCount < MaxCacheOps
    /\ cache' = [k \in CacheKeys |->
                   IF cache[k].present /\ cache[k].expire_time <= now
                   THEN NoEntry ELSE cache[k]]
    /\ Record([NoOp EXCEPT !.op = "clear_expired", !.at = now])
    /\ UNCHANGED <<stats, now, ticks, lookups, loadVars, batchVars, toolVars, lateVars>>

\* SmartCache.clear_all()
CacheClearAll ==
    /\ opCount < MaxCacheOps
    /\ cache' = [k \in CacheKeys |-> NoEntry]
    /\ Record([NoOp EXCEPT !.op = "clear_all", !.at = now])
    /\ UNCHANGED <<stats, now, ticks, lookups, loadVars, batchVars, toolVars, lateVars>>

\* round(hits / total, 4) in ten-thousandths: the nearest one to the
\* quotient, the even one of the two when it is halfway between them.
RatioScale == 10000
TruncateRatio(hits, total) == (RatioScale * hits) \div total
RoundRatio(hits, total) ==
    LET q == (RatioScale * hits) \div total
        r == (RatioScale * hits) % total
    IN IF 2 * r > total \/ (2 * r = total /\ q % 2 = 1) THEN q + 1 ELSE q

\* max(1, n)
AtLeastOne(n) == IF n < 1 THEN 1 ELSE n

\* SmartCache.get_stats(): the counters and the hit ratio
get_stats(st) ==
    [called |-> TRUE, hits |-> st.hits, misses |-> st.misses, sets |-> st.sets,
     hit_ratio |-> RoundRatio(st.hits, AtLeastOne(st.hits + st.misses))]

\* cache_stats = llm_cache.get_stats(); the call reads and changes nothing
\* of the cache.
CacheGetStats ==
    /\ cache_stats' = get_stats(stats)
    /\ UNCHANGED <<cache, stats, now, ticks, opCount, lastOp, prevOp, lookups,
                   loadVars, batchVars, toolVars, lateVars>>

\* Time passes between two calls.
Tick ==
    /\ ticks < MaxTicks
    /\ \E d \in TickSteps : now' = now + d
    /\ ticks' = ticks + 1
    /\ UNCHANGED <<cache, stats, opCount, lastOp, prevOp, lookups, cache_stats,
                   loadVars, batchVars, toolVars, lateVars>>

(***************************************************************************)
(* Oracle text.  A response is a sequence of tokens: punctuation, string   *)
(* literals, numbers, the literal null, prose words, whitespace and        *)
(* code-fence markers.                                                     *)
(***************************************************************************)
P(c) == [k |-> "p", s |-> c, n |-> 0]          \* one of { } [ ] , :
S(x) == [k |-> "s", s |-> x, n |-> 0]          \* a string literal "x"
N(i) == [k |-> "n", s |-> "", n |-> i]         \* a number
W(x) == [k |-> "w", s |-> x, n |-> 0]          \* a prose word
Null == [k |-> "l", s |-> "null", n |-> 0]     \* the literal null
Ws == [k |-> "ws", s |-> " ", n |-> 0]         \* whitespace
FenceJson == [k |-> "f", s |-> "fence_json", n |-> 0]   \* the marker ```json
Fence == [k |-> "f", s |-> "fence", n |-> 0]            \* the marker ```

\* Decoded JSON values (what json.loads returns).
JNull == [t |-> "null", s |-> "", n |-> 0, keys |-> <<>>, items |-> <<>>]
JNum(i) == [t |-> "num", s |-> "", n |-> i, keys |-> <<>>, items |-> <<>>]
JStr(x) == [t |-> "str", s |-> x, n |-> 0, keys |-> <<>>, items |-> <<>>]
JList(xs) == [t |-> "list", s |-> "", n |-> 0, keys |-> <<>>, items |-> xs]
JObj(ks, xs) == [t |-> "obj", s |-> "", n |-> 0, keys |-> ks, items |-> xs]

ParseFail == [ok |-> FALSE, val |-> JNull, pos |-> 0]
ParseOk(v, p) == [ok |-> TRUE, val |-> v, pos |-> p]

RECURSIVE ParseValue(_, _), ParseMembers(_, _, _, _), ParseElements(_, _, _)

\* The json decoder on the token at position i: a value and the position after it.
ParseValue(toks, i) ==
    IF i > Len(toks) THEN ParseFail
    ELSE LET tk == toks[i] IN
         CASE tk.k = "n" -> ParseOk(JNum(tk.n), i + 1)
           [] tk.k = "s" -> ParseOk(JStr(tk.s), i + 1)
           [] tk.k = "l" -> ParseOk(JNull, i + 1)
           [] tk = P("{") ->
                IF i + 1 <= Len(toks) /\ toks[i + 1] = P("}")
                THEN ParseOk(JObj(<<>>, <<>>), i + 2)
                ELSE ParseMembers(toks, i + 1, <<>>, <<>>)
           [] tk = P("[") ->
                IF i + 1 <= Len(toks) /\ toks[i + 1] = P("]")
                THEN ParseOk(JList(<<>>), i + 2)
                ELSE ParseElements(toks, i + 1, <<>>)
           [] OTHER -> ParseFail

\* "key" : value  ( , "key" : value )*  }
ParseMembers(toks, i, ks, xs) ==
    IF i + 1 > Len(toks) THEN ParseFail
    ELSE IF toks[i].k # "s" \/ toks[i + 1] # P(":") THEN ParseFail
    ELSE LET r == ParseValue(toks, i + 2) IN
         IF ~r.ok \/ r.pos > Len(toks) THEN ParseFail
         ELSE IF toks[r.pos] = P(",")
              THEN ParseMembers(toks, r.pos + 1, Append(ks, toks[i].s), Append(xs, r.val))
         ELSE IF toks[r.pos] = P("}")
              THEN ParseOk(JObj(Append(ks, toks[i].s), Append(xs, r.val)), r.pos + 1)
         ELSE ParseFail

\* value ( , value )*  ]
ParseElements(toks, i, xs) ==
    LET r == ParseValue(toks, i) IN
    IF ~r.ok \/ r.pos > Len(toks) THEN ParseFail
    ELSE IF toks[r.pos] = P(",") THEN ParseElements(toks, r.pos + 1, Append(xs, r.val))
    ELSE IF toks[r.pos] = P("]") THEN ParseOk(JList(Append(xs, r.val)), r.pos + 1)
    ELSE ParseFail

IsWs(tk) == tk.k = "ws"
NotWs(tk) == tk.k # "ws"

\* json.loads(text): whitespace between tokens is skipped and the whole text
\* must be one value; ok = FALSE stands for JSONDecodeError.
json_loads(text) ==
    LET toks == SelectSeq(text, NotWs)
        r == ParseValue(toks, 1)
    IN IF r.ok /\ r.pos = Len(toks) + 1
       THEN [ok |-> TRUE, val |-> r.val]
       ELSE [ok |-> FALSE, val |-> JNull]

RECURSIVE RemoveMarker(_, _, _, _)
\* re.sub(marker + r'\s*', '', text): the marker and the whitespace after it go.
RemoveMarker(text, marker, i, skipping) ==
    IF i > Len(text) THEN <<>>
    ELSE IF text[i] = marker THEN RemoveMarker(text, marker, i + 1, TRUE)
    ELSE IF skipping /\ IsWs(text[i]) THEN RemoveMarker(text, marker, i + 1, TRUE)
    ELSE <<text[i]>> \o RemoveMarker(text, marker, i + 1, FALSE)

RECURSIVE Strip(_)
\* str.strip()
Strip(text) ==
    IF text = <<>> THEN text
    ELSE IF IsWs(text[1]) THEN Strip(Tail(text))
    ELSE IF IsWs(text[Len(text)]) THEN Strip(SubSeq(text, 1, Len(text) - 1))
    ELSE text

\* re.sub(r'```json\s*', ''), re.sub(r'```\s*', ''), strip()
CleanFences(text) ==
    Strip(RemoveMarker(RemoveMarker(text, FenceJson, 1, FALSE), Fence, 1, FALSE))

\* 1-based str.find / str.rfind of one token; NotFound when there is none.
NotFound == 0
Find(text, tk) ==
    IF \E i \in 1..Len(text) : text[i] = tk
    THEN CHOOSE i \in 1..Len(text) : text[i] = tk /\ \A j \in 1..(i - 1) : text[j] # tk
    ELSE NotFound
RFind(text, tk) ==
    IF \E i \in 1..Len(text) : text[i] = tk
    THEN CHOOSE i \in 1..Len(text) :
            text[i] = tk /\ \A j \in (i + 1)..Len(text) : text[j] # tk
    ELSE NotFound

\* dict.get(key, default) on a decoded object (a repeated key keeps its last value).
ObjHas(obj, key) == \E i \in 1..Len(obj.keys) : obj.keys[i] = key
ObjGet(obj, key, default) ==
    IF ObjHas(obj, key)
    THEN obj.items[CHOOSE i \in 1..Len(obj.keys) :
            obj.keys[i] = key /\ \A j \in (i + 1)..Len(obj.keys) : obj.keys[j] # key]
    ELSE default

(***************************************************************************)
(* Items of a batch and the events made of them.                           *)
(***************************************************************************)
\* An event that has no source_file / source_line key.
NoProvenance == 0

\* The item at position k of the batch is the k-th line of the news file.
\* Its title is a string or, for an item read from a JSON line, a value of
\* another type; that is drawn when the item is extracted (WithTitle).
NewsBatches == UNION {{[k \in 1..m |-> [source_line |-> k]]} : m \in 0..MaxBatch}
WithTitle(item, is_str) ==
    [source_line |-> item.source_line, title_is_str |-> is_str]

\* An event: where it came from, its decoded payload, and the source_line it
\* was annotated with (NoProvenance: not annotated).
Event(origin, json, prov) == [origin |-> origin, json |-> json, prov |-> prov]

(***************************************************************************)
(* OptimizedInvestmentSystem._parse_batch_response                         *)
(***************************************************************************)
\* The function raised / returned the list `evs`.
Raised == [raised |-> TRUE, events |-> <<>>]
Returned(evs) == [raised |-> FALSE, events |-> evs]

\* Lines 326-339: clean, cut from the first { to the last }, json.loads.
DecodeBatch(response) ==
    LET cleaned == CleanFences(response)
        start == Find(cleaned, P("{"))
        end == RFind(cleaned, P("}"))
    IN IF start = NotFound \/ end = NotFound
       THEN [ok |-> FALSE, val |-> JNull]               \* ValueError
       ELSE json_loads(SubSeq(cleaned, start, end))     \* or JSONDecodeError

\* Lines 349-355: the element with the fields of the item its news_index names.
Annotate(event, original_news) ==
    LET news_index == ObjGet(event, "news_index", JNum(1)).n - 1 IN
    IF 0 <= news_index /\ news_index < Len(original_news)
    THEN Event("batch", event, original_news[news_index + 1].source_line)
    ELSE Event("batch", event, NoProvenance)

\* event.get(...) - 1 works: the element is an object whose news_index, if
\* any, is a number.
Annotatable(event) ==
    /\ event.t = "obj"
    /\ ObjGet(event, "news_index", JNum(1)).t = "num"

\* A count mismatch raises instead of being logged.
ReconcileStrictCount(batch_events, original_news) ==
    IF batch_events.t = "list"
       /\ Len(batch_events.items) = Len(original_news)
       /\ \A i \in 1..Len(batch_events.items) : Annotatable(batch_events.items[i])
    THEN Returned([i \in 1..Len(batch_events.items) |->
                      Annotate(batch_events.items[i], original_news)])
    ELSE Raised

\* Elements beyond the number of items are cut off.
ReconcileTruncating(batch_events, original_news) ==
    IF batch_events.t = "list"
       /\ \A i \in 1..Len(batch_events.items) : Annotatable(batch_events.items[i])
    THEN Returned([i \in 1..(IF Len(batch_events.items) < Len(original_news)
                            THEN Len(batch_events.items) ELSE Len(original_news)) |->
                      Annotate(batch_events.items[i], original_news)])
    ELSE Raised

\* Lines 341-357: len(batch_events), the annotation loop, return batch_events.
Reconcile(batch_events, original_news) ==
    CASE batch_events.t \in {"num", "null"} -> Raised      \* len(): TypeError
      [] batch_events.t = "str" ->                         \* a character has no .get
           IF batch_events.s = "" THEN Returned(<<>>) ELSE Raised
      [] batch_events.t = "obj" ->                         \* a key has no .get
           IF batch_events.keys = <<>> THEN Returned(<<>>) ELSE Raised
      [] batch_events.t = "list" ->
           IF \A i \in 1..Len(batch_events.items) : Annotatable(batch_events.items[i])
           THEN Returned([i \in 1..Len(batch_events.items) |->
                             Annotate(batch_events.items[i], original_news)])
           ELSE Raised                                     \* AttributeError / TypeError

_parse_batch_response(response, original_news) ==
    LET result == DecodeBatch(response) IN
    IF ~result.ok THEN Raised
    ELSE Reconcile(ObjGet(result.val, "batch_events", JList(<<>>)), original_news)

(***************************************************************************)
(* EventExtractionAgent: single-item extraction                            *)
(***************************************************************************)
\* self.required_output_fields
required_output_fields == {"core_events", "impact_level", "time_horizon", "affected_assets"}

\* _clean_llm_response
_clean_llm_response(response) ==
    LET cleaned == CleanFences(response)
        start == Find(cleaned, P("{"))
        end == RFind(cleaned, P("}"))
    IN IF start # NotFound /\ end # NotFound
       THEN SubSeq(cleaned, start, end)
       ELSE cleaned

\* `field in event_data`: a key of an object, an element of a list, a
\* substring of a string.
FieldIn(field, event_data) ==
    CASE event_data.t = "obj" -> ObjHas(event_data, field)
      [] event_data.t = "list" ->
           \E i \in 1..Len(event_data.items) : event_data.items[i] = JStr(field)
      [] event_data.t = "str" -> event_data.s = field
      [] OTHER -> FALSE

\* _parse_single_response: ok = FALSE when it raises (JSONDecodeError,
\* TypeError of `in` on a number or None, ValueError for a missing field).
_parse_single_response(response) ==
    LET event_data == json_loads(_clean_llm_response(response)) IN
    IF ~event_data.ok THEN [ok |-> FALSE, val |-> JNull]
    ELSE IF event_data.val.t \in {"num", "null"} THEN [ok |-> FALSE, val |-> JNull]
    ELSE IF \A f \in required_output_fields : FieldIn(f, event_data.val)
         THEN [ok |-> TRUE, val |-> event_data.val]
         ELSE [ok |-> FALSE, val |-> JNull]

\* EventExtractionAgent._create_default_event: the dict it returns (impact
\* level as for a text without keywords; confidence in tenths).
ExtractorDefaultJson ==
    JObj(<<"core_event", "impact_level", "time_horizon", "affected_assets",
           "investment_implication", "confidence">>,
         <<JStr("title"), JStr("medium"), JStr("short"), JList(<<>>),
           JStr("auto"), JNum(5)>>)

\* OptimizedInvestmentSystem._create_default_event: the dict it returns
\* without its source_file / source_line keys (confidence in tenths).
MainDefaultJson ==
    JObj(<<"core_event", "impact_level", "time_horizon", "affected_assets",
           "investment_implication", "confidence">>,
         <<JStr("content"), JStr("low"), JStr("short"), JList(<<>>),
           JStr("todo"), JNum(3)>>)

\* bool(value)
Truthy(v) ==
    CASE v.t = "obj" -> v.keys # <<>>
      [] v.t = "list" -> v.items # <<>>
      [] v.t = "str" -> v.s # ""
      [] v.t = "num" -> v.n # 0
      [] OTHER -> FALSE

\* extract_single_event: the parsed response, or on any parse exception the
\* default event; _create_default_event raises TypeError on `title + content`
\* when the title is no string.
extract_single_event(news, response) ==
    LET parsed == _parse_single_response(response) IN
    IF parsed.ok THEN Returned(<<Event("single", parsed.val, NoProvenance)>>)
    ELSE IF news.title_is_str
         THEN Returned(<<Event("extractor_default", ExtractorDefaultJson, NoProvenance)>>)
         ELSE Raised

\* The default event is taken for "no event".
_process_single_DropsDefault(news, response) ==
    LET r == extract_single_event(news, response) IN
    IF r.raised THEN Raised
    ELSE Returned(SelectSeq(r.events, LAMBDA e : e.origin = "single"))

\* _process_single: `events_list = [event] if event else []`
_process_single(news, response) ==
    LET r == extract_single_event(news, response) IN
    IF r.raised THEN Raised
    ELSE Returned(SelectSeq(r.events, LAMBDA e : Truthy(e.json)))

\* EventExtractionAgent.process([news]): a list of one item goes to
\* _process_single; its "extracted_events".
process(input_data, response) == _process_single(input_data[1], response)

\* One iteration of the loop of _fallback_single_processing: the events it
\* adds to all_events.
FallbackEvents(news, response) ==
    LET events_data == process(<<news>>, response) IN
    IF ~events_data.raised THEN events_data.events
    ELSE <<Event("main_default", MainDefaultJson, news.source_line)>>

(***************************************************************************)
(* The texts the oracle may answer with.                                   *)
(***************************************************************************)
\* What an element of batch_events carries as news_index: nothing, a string,
\* or a number (MaxBatch + 1 names no item of any batch).
IdxChoices ==
    {[kind |-> "absent", n |-> 0], [kind |-> "string", n |-> 0]}
        \cup {[kind |-> "int", n |-> i] : i \in 1..(MaxBatch + 1)}
IxSeqs == UNION {[1..m -> IdxChoices] : m \in 0..MaxElems}

Member(key, valueTok) == <<S(key), P(":"), valueTok>>

\* { "news_index": ix, "core_event": "text" }
ElemText(ix) ==
    <<P("{")>>
    \o (CASE ix.kind = "absent" -> <<>>
          [] ix.kind = "string" -> Member("news_index", S("1")) \o <<P(",")>>
          [] OTHER -> Member("news_index", N(ix.n)) \o <<P(",")>>)
    \o Member("core_event", S("text")) \o <<P("}")>>

RECURSIVE ElemsText(_, _)
ElemsText(ixs, i) ==
    IF i > Len(ixs) THEN <<>>
    ELSE ElemText(ixs[i]) \o (IF i < Len(ixs) THEN <<P(",")>> ELSE <<>>)
         \o ElemsText(ixs, i + 1)

\* { "batch_events": [ element, ... ] }
EventListText(ixs) ==
    <<P("{")>> \o Member("batch_events", P("[")) \o ElemsText(ixs, 1)
    \o <<P("]"), P("}")>>

Fenced(text) == <<FenceJson, Ws>> \o text \o <<Ws, Fence>>
InProse(text) == <<W("prose"), Ws>> \o text \o <<Ws, W("prose")>>
MissingClosingBrace(text) == SubSeq(text, 1, Len(text) - 1)

ProseText == <<W("prose"), Ws, W("prose")>>
\* f"Error: {response.status_code}"
ErrorText == <<W("Error:"), Ws, W("500")>>
\* { "error": "text" }
ErrorObjectText == <<P("{")>> \o Member("error", S("text")) \o <<P("}")>>
EmptyObjectText == <<P("{"), P("}")>>
\* How the oracle built its answer to the batch prompt: an event list with
\* the news_index values ixs in one of four presentations, or another text.
ListForms == {"plain", "fenced", "in_prose", "missing_brace"}
WellFormedForms == {"plain", "fenced", "in_prose"}
NoObjectForms == {"prose", "error", "empty"}
NoListForms == {"error_object", "empty_object", "number_for_list",
                "null_for_list", "string_for_list", "number_in_list"}
ResponseShapes ==
    [form : ListForms, ixs : IxSeqs]
        \cup [form : NoObjectForms \cup NoListForms, ixs : {<<>>}]

ListHolding(valueToks) ==
    <<P("{")>> \o Member("batch_events", P("[")) \o valueToks \o <<P("]"), P("}")>>

\* The text of a response of the given shape.
TextOf(shape) ==
    CASE shape.form = "plain" -> EventListText(shape.ixs)
      [] shape.form = "fenced" -> Fenced(EventListText(shape.ixs))
      [] shape.form = "in_prose" -> InProse(EventListText(shape.ixs))
      [] shape.form = "missing_brace" -> MissingClosingBrace(EventListText(shape.ixs))
      [] shape.form = "prose" -> ProseText
      [] shape.form = "error" -> ErrorText
      [] shape.form = "empty" -> <<>>
      [] shape.form = "error_object" -> ErrorObjectText
      [] shape.form = "empty_object" -> EmptyObjectText
      [] shape.form = "number_for_list" ->
           <<P("{")>> \o Member("batch_events", N(1)) \o <<P("}")>>
      [] shape.form = "null_for_list" ->
           <<P("{")>> \o Member("batch_events", Null) \o <<P("}")>>
      [] shape.form = "string_for_list" ->
           <<P("{")>> \o Member("batch_events", S("text")) \o <<P("}")>>
      [] shape.form = "number_in_list" -> ListHolding(<<N(1)>>)

ObjectText(ks) ==
    <<P("{")>> \o Member(ks[1], S("text")) \o <<P(",")>> \o Member(ks[2], S("text"))
    \o <<P(",")>> \o Member(ks[3], S("text")) \o <<P(",")>>
    \o Member(ks[4], P("[")) \o <<P("]"), P("}")>>

\* The object the single-item prompt asks for, with its six fields
\* (confidence in tenths).
PromptSchemaText ==
    LET head == ObjectText(<<"core_event", "impact_level", "time_horizon", "affected_assets">>)
    IN SubSeq(head, 1, Len(head) - 1) \o <<P(",")>>
          \o Member("investment_implication", S("text")) \o <<P(",")>>
          \o Member("confidence", N(8)) \o <<P("}")>>
\* An object with every required_output_fields key.
RequiredFieldsText ==
    ObjectText(<<"core_events", "impact_level", "time_horizon", "affected_assets">>)
\* A JSON list of the four required field names.
FieldNameListText ==
    <<P("["), S("core_events"), P(","), S("impact_level"), P(","),
      S("time_horizon"), P(","), S("affected_assets"), P("]")>>

\* the answers that are the object the prompt asks for, bare or fenced
SchemaResponses == {PromptSchemaText, Fenced(PromptSchemaText)}

SingleResponses ==
    {PromptSchemaText, Fenced(PromptSchemaText), RequiredFieldsText,
     InProse(RequiredFieldsText), MissingClosingBrace(RequiredFieldsText),
     FieldNameListText, <<S("core_events")>>, <<N(1)>>, <<Null>>,
     ProseText, ErrorText, <<>>}

(***************************************************************************)
(* OptimizedInvestmentSystem._process_news_batch                           *)
(***************************************************************************)
BatchIdle ==
    /\ news_batch = <<>>
    /\ batchPc = "idle"
    /\ batchShape = [form |-> "empty", ixs |-> <<>>]
    /\ batchResponse = <<>>
    /\ events = <<>>
    /\ batchCalls = 0
    /\ singleOrder = <<>>
    /\ schemaAnswers = <<>>
    /\ parseRaised = FALSE
    /\ llm_calls = 0

\* _process_news_batch(news_batch) is called.
BatchStart ==
    /\ news_batch \in NewsBatches
    /\ batchPc = "pending"
    /\ batchShape = [form |-> "empty", ixs |-> <<>>]
    /\ batchResponse = <<>>
    /\ events = <<>>
    /\ batchCalls = 0
    /\ singleOrder = <<>>
    /\ schemaAnswers = <<>>
    /\ parseRaised = FALSE
    /\ llm_calls = 0

\* `if not news_batch: return []`
BatchEmpty ==
    /\ batchPc = "pending"
    /\ news_batch = <<>>
    /\ batchPc' = "done"
    /\ UNCHANGED <<news_batch, batchShape, batchResponse, events, batchCalls, singleOrder,
                   schemaAnswers,
                   parseRaised, llm_calls, loadVars, cacheVars, toolVars, lateVars>>

\* The batch prompt is built and sent: self.event_extractor.llm_call(batch_prompt).
BatchPrompt ==
    /\ batchPc = "pending"
    /\ news_batch # <<>>
    /\ \E shape \in ResponseShapes :
          /\ batchShape' = shape
          /\ batchResponse' = TextOf(shape)
    /\ batchCalls' = batchCalls + 1
    /\ batchPc' = "prompted"
    /\ UNCHANGED <<news_batch, events, singleOrder, schemaAnswers, parseRaised, llm_calls,
                   loadVars, cacheVars, toolVars, lateVars>>

\* _parse_batch_response returns (record_llm_call, return batch_events) or
\* raises (the except branch enters _fallback_single_processing).
BatchParse ==
    /\ batchPc = "prompted"
    /\ LET r == _parse_batch_response(batchResponse, news_batch) IN
       IF ~r.raised
       THEN /\ events' = r.events
            /\ llm_calls' = llm_calls + 1
            /\ batchPc' = "parsed"
            /\ UNCHANGED parseRaised
       ELSE /\ events' = <<>>
            /\ parseRaised' = TRUE
            /\ batchPc' = "fallback"
            /\ UNCHANGED llm_calls
    /\ UNCHANGED <<news_batch, batchShape, batchResponse, batchCalls, singleOrder,
                   schemaAnswers, loadVars, cacheVars, toolVars, lateVars>>

\* One iteration of `for news in news_batch` in _fallback_single_processing;
\* r is the oracle's answer to the single-item prompt.
FallbackItem ==
    /\ batchPc = "fallback"
    /\ Len(singleOrder) < Len(news_batch)
    /\ LET k == Len(singleOrder) + 1 IN
       \E r \in SingleResponses, is_str \in BOOLEAN :
          LET news == WithTitle(news_batch[k], is_str) IN
          /\ events' = events \o FallbackEvents(news, r)
          /\ singleOrder' = Append(singleOrder, k)
          /\ schemaAnswers' = Append(schemaAnswers, r \in SchemaResponses)
          /\ llm_calls' = IF process(<<news>>, r).raised
                          THEN llm_calls ELSE llm_calls + 1
    /\ UNCHANGED <<news_batch, batchPc, batchShape, batchResponse, batchCalls, parseRaised,
                   loadVars, cacheVars, toolVars, lateVars>>

\* `return all_events` of _fallback_single_processing.
FallbackReturn ==
    /\ batchPc = "fallback"
    /\ Len(singleOrder) = Len(news_batch)
    /\ batchPc' = "done"
    /\ UNCHANGED <<news_batch, batchShape, batchResponse, events, batchCalls, singleOrder,
                   schemaAnswers,
                   parseRaised, llm_calls, loadVars, cacheVars, toolVars, lateVars>>

(***************************************************************************)
(* QwenModelClient.get_completion (src/core/llm_core/model_client.py).     *)
(* A system message or a prompt is a sequence of characters; a response    *)
(* text is named by an identifier.                                         *)
(***************************************************************************)
SystemSlice == 50      \* system_message[:50]
PromptSlice == 100     \* prompt[:100]

\* text[:n]
Prefix(text, n) == SubSeq(text, 1, IF Len(text) < n THEN Len(text) ELSE n)

\* cache_key = f"{system_message[:50]}_{prompt[:100]}"
cache_key(system_message, prompt) ==
    Prefix(system_message, SystemSlice) \o <<"_">> \o Prefix(prompt, PromptSlice)

\* n copies of the character c
Rep(c, n) == [i \in 1..n |-> c]

\* "You are a helpful assistant", and the 63 characters of the extraction
\* agent's system prompt.
DefaultSystemMessage == Rep("h", 27)
ExtractorSystemPrompt == Rep("s", 63)
SystemMessages == {DefaultSystemMessage, ExtractorSystemPrompt}

\* Prompts that differ in one character: their first, their 100th or their
\* 101st (two batch prompts differ only after the batch header and the first
\* characters of the first item).
Prompts ==
    {Rep("p", n) \o <<x>> : n \in {0, PromptSlice - 1, PromptSlice}, x \in {"a", "b"}}

\* A returned text is a sequence of words.  response_text after the <think>
\* block is cut and the text stripped:
ResponseTexts == {<<"r1">>, <<"r2">>}

\* What requests.post and the reading of its response can come to: the post
\* raises (no connection, timeout), the status is not 200, the body is not
\* JSON (response.json() raises), the JSON has no 'response' key
\* (result['response'] raises KeyError), or the text is there.
ErrorMarker == "Error:"
PostFailures ==
    { [kind |-> "exception", detail |-> "connection refused"],
      [kind |-> "exception", detail |-> "read timed out"],
      [kind |-> "status", detail |-> "500"],
      [kind |-> "status", detail |-> "404"],
      [kind |-> "not_json", detail |-> "expecting value"],
      [kind |-> "no_field", detail |-> "'response'"] }

\* get_completion ends by returning a text or by letting an exception out
ReturnsText(text) == [raised |-> FALSE, text |-> text]
LetsOut(e) == [raised |-> TRUE, text |-> <<>>]

\* except Exception as e: return f"Error: {str(e)}"
ExceptHandler(e) == ReturnsText(<<ErrorMarker, e>>)

\* the try block of get_completion on a post that fails
OnFailure(failure) ==
    IF failure.kind = "status"
    THEN ReturnsText(<<ErrorMarker, failure.detail>>)   \* f"Error: {response.status_code}"
    ELSE ExceptHandler(failure.detail)

NoFailure == [kind |-> "none", detail |-> ""]
NoRequest ==
    [system |-> <<>>, prompt |-> <<>>, use_cache |-> FALSE, hit |-> FALSE,
     failure |-> NoFailure, raised |-> FALSE, result |-> <<>>]

\* a client on an empty ./data/llm_cache
GatewayFresh ==
    /\ llmCache = {}
    /\ storedBy = {}
    /\ lastRequest = NoRequest
    /\ requests = 0

\* cache_key in self.cache, self.cache[cache_key]
Cached(key) == \E e \in llmCache : e.key = key
CachedValue(key) == (CHOOSE e \in llmCache : e.key = key).value

\* self.cache[cache_key] = response_text
Store(key, text) == {e \in llmCache : e.key # key} \cup {[key |-> key, value |-> text]}

\* the cache after a post that failed: neither the else branch nor the
\* except branch of get_completion writes to self.cache
StoresErrorText(key, text) == Store(key, text)
CacheAfterFailure(key, text) == llmCache

\* get_completion returns the stored text: use_cache and cache_key in self.cache.
GatewayHit ==
    /\ requests < MaxRequests
    /\ \E system_message \in SystemMessages, prompt \in Prompts :
          LET key == cache_key(system_message, prompt) IN
          /\ Cached(key)
          /\ lastRequest' = [system |-> system_message, prompt |-> prompt,
                             use_cache |-> TRUE, hit |-> TRUE,
                             failure |-> NoFailure, raised |-> FALSE,
                             result |-> CachedValue(key)]
    /\ requests' = requests + 1
    /\ UNCHANGED <<llmCache, storedBy, lateVars, loadVars, cacheVars, batchVars,
                   repairVars, priorityVars, qualityVars>>

\* get_completion posts the request and the server answers with status 200.
GatewayComplete ==
    /\ requests < MaxRequests
    /\ \E system_message \in SystemMessages, prompt \in Prompts,
          use_cache \in BOOLEAN, response_text \in ResponseTexts :
          LET key == cache_key(system_message, prompt) IN
          /\ ~(use_cache /\ Cached(key))
          /\ IF use_cache
             THEN /\ llmCache' = Store(key, response_text)
                  /\ storedBy' = {e \in storedBy : e.key # key} \cup
                        {[key |-> key, system |-> system_message, prompt |-> prompt]}
             ELSE UNCHANGED <<llmCache, storedBy>>
          /\ lastRequest' = [system |-> system_message, prompt |-> prompt,
                             use_cache |-> use_cache, hit |-> FALSE,
                             failure |-> NoFailure, raised |-> FALSE,
                             result |-> response_text]
    /\ requests' = requests + 1
    /\ UNCHANGED <<lateVars, loadVars, cacheVars, batchVars, repairVars, priorityVars, qualityVars>>

\* get_completion posts the request and the call fails: the post raises,
\* the status is not 200, or the body has not the expected text.
GatewayError ==
    /\ requests < MaxRequests
    /\ \E system_message \in SystemMessages, prompt \in Prompts,
          use_cache \in BOOLEAN, failure \in PostFailures :
          LET end == OnFailure(failure) IN
          /\ ~(use_cache /\ Cached(cache_key(system_message, prompt)))
          /\ llmCache' = CacheAfterFailure(cache_key(system_message, prompt), end.text)
          /\ lastRequest' = [system |-> system_message, prompt |-> prompt,
                             use_cache |-> use_cache, hit |-> FALSE,
                             failure |-> failure, raised |-> end.raised,
                             result |-> end.text]
    /\ requests' = requests + 1
    /\ UNCHANGED <<storedBy, lateVars, loadVars, cacheVars, batchVars,
                   repairVars, priorityVars, qualityVars>>

(***************************************************************************)
(* JSONUtils (src/core/utils/json_utils.py).  Here a text is a sequence of *)
(* characters.  The punctuation, the space and the digits are themselves;  *)
(* a run of letters is one symbol, which every pattern below treats as it  *)
(* treats a single letter; Fence3 is the run of three backticks.           *)
(***************************************************************************)
Quote == "\""
Backslash == "\\"
Apostrophe == "'"
Space == " "
Fence3 == "fence3"
Digits == {"0", "1", "2", "3", "4", "5", "6", "7", "8", "9"}
Punctuation ==
    {"{", "}", "[", "]", ":", ",", Quote, Apostrophe, Backslash, Space, Fence3}

IsSpaceChar(c) == c = Space              \* \s
IsDigitChar(c) == c \in Digits           \* \d
IsWordChar(c) == c \notin Punctuation    \* \w

RECURSIVE SkipSpaces(_, _)
\* where a greedy \s* starting at position i ends
SkipSpaces(text, i) ==
    IF i <= Len(text) /\ IsSpaceChar(text[i]) THEN SkipSpaces(text, i + 1) ELSE i

\* text[i] = c, false past the end
At(text, i, c) == i <= Len(text) /\ text[i] = c

\* the first position from i on that holds a character of the set, or Len + 1
RECURSIVE FirstIn(_, _, _)
FirstIn(text, i, set) ==
    IF i > Len(text) \/ text[i] \in set THEN i ELSE FirstIn(text, i + 1, set)

RECURSIVE RemoveFenceJson(_, _), RemoveFence(_, _), StripChars(_), ReplaceEscaped(_, _, _)

\* re.sub(r'```json\s*', '', text)
RemoveFenceJson(text, i) ==
    IF i > Len(text) THEN <<>>
    ELSE IF text[i] = Fence3 /\ At(text, i + 1, "json")
         THEN RemoveFenceJson(text, SkipSpaces(text, i + 2))
         ELSE <<text[i]>> \o RemoveFenceJson(text, i + 1)

\* re.sub(r'```\s*', '', text)
RemoveFence(text, i) ==
    IF i > Len(text) THEN <<>>
    ELSE IF text[i] = Fence3 THEN RemoveFence(text, SkipSpaces(text, i + 1))
         ELSE <<text[i]>> \o RemoveFence(text, i + 1)

\* text.strip()
StripChars(text) ==
    IF text = <<>> THEN text
    ELSE IF IsSpaceChar(text[1]) THEN StripChars(Tail(text))
    ELSE IF IsSpaceChar(text[Len(text)]) THEN StripChars(SubSeq(text, 1, Len(text) - 1))
    ELSE text

\* text.replace('\\' + c, c): a backslash before the character c goes
ReplaceEscaped(text, c, i) ==
    IF i > Len(text) THEN <<>>
    ELSE IF text[i] = Backslash /\ At(text, i + 1, c)
         THEN <<c>> \o ReplaceEscaped(text, c, i + 2)
         ELSE <<text[i]>> \o ReplaceEscaped(text, c, i + 1)

\* _basic_clean (the texts here hold no control characters)
_basic_clean(text) ==
    LET unfenced == StripChars(RemoveFence(RemoveFenceJson(text, 1), 1))
    IN ReplaceEscaped(ReplaceEscaped(unfenced, Quote, 1), Apostrophe, 1)

RECURSIVE RewriteQuoted(_, _), SingleToDouble(_, _), CommaAfterQuotePair(_, _), CommaAfter(_, _, _)
RECURSIVE QuoteBareValues(_, _), DropTrailingCommas(_, _), WordEnd(_, _)

\* re.sub(r'([^\\])"([^"\\]*)"', r'\1"\2"', text): a character other than a
\* backslash, a quote, a run without quote or backslash, a quote; the match
\* is rewritten as group 1, a quote, group 2, a quote.
RewriteQuoted(text, i) ==
    IF i > Len(text) THEN <<>>
    ELSE LET k == FirstIn(text, i + 2, {Quote, Backslash}) IN
         IF text[i] # Backslash /\ At(text, i + 1, Quote) /\ At(text, k, Quote)
         THEN <<text[i], Quote>> \o SubSeq(text, i + 2, k - 1) \o <<Quote>>
                  \o RewriteQuoted(text, k + 1)
         ELSE <<text[i]>> \o RewriteQuoted(text, i + 1)

\* re.sub(r"'([^']*)'", r'"\1"', text)
SingleToDouble(text, i) ==
    IF i > Len(text) THEN <<>>
    ELSE LET j == FirstIn(text, i + 1, {Apostrophe}) IN
         IF text[i] = Apostrophe /\ j <= Len(text)
         THEN <<Quote>> \o SubSeq(text, i + 1, j - 1) \o <<Quote>>
                  \o SingleToDouble(text, j + 1)
         ELSE <<text[i]>> \o SingleToDouble(text, i + 1)

\* re.sub(r'("\s*")\s*"', r'\1, "', text)
CommaAfterQuotePair(text, i) ==
    IF i > Len(text) THEN <<>>
    ELSE LET j == SkipSpaces(text, i + 1)
             k == SkipSpaces(text, j + 1)
         IN IF text[i] = Quote /\ At(text, j, Quote) /\ At(text, k, Quote)
            THEN SubSeq(text, i, j) \o <<",", Space, Quote>>
                     \o CommaAfterQuotePair(text, k + 1)
            ELSE <<text[i]>> \o CommaAfterQuotePair(text, i + 1)

\* re.sub(r'(\d)\s*"', r'\1, "', text), re.sub(r'}\s*"', r'}, "', text) and
\* re.sub(r']\s*"', r'], "', text): heads is what the first character may be
CommaAfter(text, heads, i) ==
    IF i > Len(text) THEN <<>>
    ELSE LET k == SkipSpaces(text, i + 1) IN
         IF text[i] \in heads /\ At(text, k, Quote)
         THEN <<text[i], ",", Space, Quote>> \o CommaAfter(text, heads, k + 1)
         ELSE <<text[i]>> \o CommaAfter(text, heads, i + 1)

\* where the run of \w characters starting at i ends
WordEnd(text, i) ==
    IF i <= Len(text) /\ IsWordChar(text[i]) THEN WordEnd(text, i + 1) ELSE i

\* re.sub(r'(\w+):\s*([^",{}\[\]]+)(?=\s*[,}\]])', r'"\1": "\2"', text).
\* The value runs to the first of " , { } [ ], which has to be , } or ];
\* \s* gives its last space back when the value would be empty otherwise.
QuoteBareValues(text, i) ==
    IF i > Len(text) THEN <<>>
    ELSE LET j == WordEnd(text, i)
             stop == FirstIn(text, j + 1, {Quote, ",", "{", "}", "[", "]"})
             v == SkipSpaces(text, j + 1)
             from == IF v < stop THEN v ELSE stop - 1
         IN IF /\ j > i
               /\ At(text, j, ":")
               /\ stop > j + 1
               /\ stop <= Len(text)
               /\ text[stop] \in {",", "}", "]"}
            THEN <<Quote>> \o SubSeq(text, i, j - 1) \o <<Quote, ":", Space, Quote>>
                     \o SubSeq(text, from, stop - 1) \o <<Quote>>
                     \o QuoteBareValues(text, stop)
            ELSE <<text[i]>> \o QuoteBareValues(text, i + 1)

\* re.sub(r',\s*([}\]])', r'\1', text)
DropTrailingCommas(text, i) ==
    IF i > Len(text) THEN <<>>
    ELSE LET k == SkipSpaces(text, i + 1) IN
         IF text[i] = "," /\ k <= Len(text) /\ text[k] \in {"}", "]"}
         THEN <<text[k]>> \o DropTrailingCommas(text, k + 1)
         ELSE <<text[i]>> \o DropTrailingCommas(text, i + 1)

\* _fix_common_json_issues
_fix_common_json_issues(text) ==
    LET t1 == SingleToDouble(RewriteQuoted(text, 1), 1)
        t2 == CommaAfterQuotePair(t1, 1)
        t3 == CommaAfter(t2, Digits, 1)
        t4 == CommaAfter(t3, {"}"}, 1)
        t5 == CommaAfter(t4, {"]"}, 1)
        t6 == QuoteBareValues(t5, 1)
    IN DropTrailingCommas(t6, 1)

(***************************************************************************)
(* json.loads on a text of characters: the characters are grouped into     *)
(* tokens, which the decoder above reads.  A decoded string or key is the  *)
(* sequence of its characters.                                             *)
(***************************************************************************)
LexFail == [ok |-> FALSE, toks |-> <<>>]
LexCons(tk, rest) == IF rest.ok THEN [ok |-> TRUE, toks |-> <<tk>> \o rest.toks] ELSE LexFail

RECURSIVE LexString(_, _, _), DigitsValue(_, _, _), DigitsEnd(_, _), Lex(_, _)

\* The body of a string literal from position i: the characters up to the
\* closing quote, \" and \\ standing for a quote and a backslash; any other
\* escape in these texts is invalid.
LexString(text, i, acc) ==
    IF i > Len(text) THEN [ok |-> FALSE, val |-> <<>>, pos |-> 0]
    ELSE IF text[i] = Quote THEN [ok |-> TRUE, val |-> acc, pos |-> i + 1]
    ELSE IF text[i] = Backslash
         THEN IF i + 1 <= Len(text) /\ text[i + 1] \in {Quote, Backslash}
              THEN LexString(text, i + 2, Append(acc, text[i + 1]))
              ELSE [ok |-> FALSE, val |-> <<>>, pos |-> 0]
    ELSE LexString(text, i + 1, Append(acc, text[i]))

DigitOf(c) ==
    CASE c = "0" -> 0 [] c = "1" -> 1 [] c = "2" -> 2 [] c = "3" -> 3 [] c = "4" -> 4
      [] c = "5" -> 5 [] c = "6" -> 6 [] c = "7" -> 7 [] c = "8" -> 8 [] c = "9" -> 9

DigitsEnd(text, i) ==
    IF i <= Len(text) /\ IsDigitChar(text[i]) THEN DigitsEnd(text, i + 1) ELSE i

\* the number the digits text[i .. j-1] spell, after the digits that gave acc
DigitsValue(text, i, acc) ==
    IF i <= Len(text) /\ IsDigitChar(text[i])
    THEN DigitsValue(text, i + 1, acc * 10 + DigitOf(text[i]))
    ELSE acc

Lex(text, i) ==
    IF i > Len(text) THEN [ok |-> TRUE, toks |-> <<>>]
    ELSE LET c == text[i] IN
         IF IsSpaceChar(c) THEN Lex(text, i + 1)
         ELSE IF c \in {"{", "}", "[", "]", ":", ","} THEN LexCons(P(c), Lex(text, i + 1))
         ELSE IF c = Quote
              THEN LET r == LexString(text, i + 1, <<>>) IN
                   IF r.ok THEN LexCons(S(r.val), Lex(text, r.pos)) ELSE LexFail
         ELSE IF IsDigitChar(c)
              THEN LET j == DigitsEnd(text, i) IN
                   IF j <= Len(text) /\ IsWordChar(text[j]) THEN LexFail
                   ELSE LexCons(N(DigitsValue(text, i, 0)), Lex(text, j))
         ELSE IF c = "null" THEN LexCons(Null, Lex(text, i + 1))
         ELSE LexFail

\* json.loads(text) for a text of characters; ok = FALSE is JSONDecodeError
loads(text) ==
    LET l == Lex(text, 1) IN
    IF l.ok THEN json_loads(l.toks) ELSE [ok |-> FALSE, val |-> JNull]

\* _is_valid_json
_is_valid_json(text) == loads(text).ok

\* _build_fallback_json: {"error": "JSON解析失败", "analysis_type": "fallback"},
\* the message being one run of letters
_build_fallback_json ==
    <<"{", Quote, "error", Quote, ":", Space, Quote, "JSON_parse_failed", Quote, ",",
      Space, Quote, "analysis_type", Quote, ":", Space, Quote, "fallback", Quote, "}">>

\* 1-based text.find(c) and text.rfind(c); NotFound when c does not occur
FindChar(text, c) ==
    IF \E i \in 1..Len(text) : text[i] = c
    THEN CHOOSE i \in 1..Len(text) : text[i] = c /\ \A j \in 1..(i - 1) : text[j] # c
    ELSE NotFound
RFindChar(text, c) ==
    IF \E i \in 1..Len(text) : text[i] = c
    THEN CHOOSE i \in 1..Len(text) : text[i] = c /\ \A j \in (i + 1)..Len(text) : text[j] # c
    ELSE NotFound

\* _aggressive_json_repair: the text from the first { to the last } when both
\* exist, and the fallback text when that is not valid JSON
_aggressive_json_repair(text) ==
    LET start == FindChar(text, "{")
        end == RFindChar(text, "}")
        cut == IF start # NotFound /\ end # NotFound THEN SubSeq(text, start, end) ELSE text
    IN IF _is_valid_json(cut) THEN cut ELSE _build_fallback_json

\* What safe_json_parse returns: a decoded value, or default (None).
Decoded(v) == [kind |-> "value", val |-> v]
DefaultReturned == [kind |-> "default", val |-> JNull]
NotReturned == [kind |-> "none", val |-> JNull]

(***************************************************************************)
(* The texts safe_json_parse is given: objects of up to MaxMembers members *)
(* as an oracle writes them, well-formed or damaged.                       *)
(***************************************************************************)
StringLiteral(body) == <<Quote>> \o body \o <<Quote>>

ValueTexts ==
    { StringLiteral(<<"x">>),                           \* "x"
      StringLiteral(<<"x", "1">>),                      \* "x1"
      StringLiteral(<<"q", Backslash, Quote, "r">>),    \* "q\"r"
      StringLiteral(<<"q", Backslash, Backslash>>),     \* "q\\", a text ending in a backslash
      StringLiteral(<<>>),                              \* ""
      <<"1">>,                                          \* 1
      <<"null">>,                                       \* null
      <<"[", "1", ",", Space, "2", "]">>,               \* [1, 2]
      <<"{", Quote, "k", Quote, ":", Space, "1", "}">> }   \* {"k": 1}

KeyNames == <<"a", "b", "c", "d">>

\* "key": value
MemberChars(i, valueText) == StringLiteral(<<KeyNames[i]>>) \o <<":", Space>> \o valueText

RECURSIVE MembersChars(_, _, _)
\* the members from the i-th on, sep between two of them
MembersChars(values, i, sep) ==
    IF i > Len(values) THEN <<>>
    ELSE MemberChars(i, values[i])
             \o (IF i < Len(values) THEN sep ELSE <<>>)
             \o MembersChars(values, i + 1, sep)

ObjectChars(values) == <<"{">> \o MembersChars(values, 1, <<",", Space>>) \o <<"}">>

RECURSIVE WithApostrophes(_)
WithApostrophes(text) ==
    IF text = <<>> THEN <<>>
    ELSE <<IF text[1] = Quote THEN Apostrophe ELSE text[1]>> \o WithApostrophes(Tail(text))

TextForms ==
    {"plain", "fenced", "in_prose", "missing_brace", "trailing_comma",
     "single_quoted", "missing_comma"}

\* the text of an object in one of the forms
TextIn(form, values) ==
    LET t == ObjectChars(values) IN
    CASE form = "plain" -> t
      [] form = "fenced" -> <<Fence3, "json", Space>> \o t \o <<Space, Fence3>>
      [] form = "in_prose" -> <<"Result", ":", Space>> \o t \o <<Space, "done">>
      [] form = "missing_brace" -> SubSeq(t, 1, Len(t) - 1)
      [] form = "trailing_comma" -> SubSeq(t, 1, Len(t) - 1) \o <<",", "}">>
      [] form = "single_quoted" -> WithApostrophes(t)
      [] form = "missing_comma" ->
            <<"{">> \o MembersChars(values, 1, <<Space>>) \o <<"}">>

\* the texts of the objects of n members
ObjectTextsOf(n) == {TextIn(form, values) : form \in TextForms, values \in [1..n -> ValueTexts]}

\* the empty text, a blank text, prose, and {a: 1}
OtherTexts ==
    {<<>>, <<Space>>, <<"no", Space, "events">>, <<"{", "a", ":", Space, "1", "}">>}

RepairIdle ==
    /\ json_str = <<>>
    /\ cleaned_text = <<>>
    /\ repairPc = "idle"
    /\ repairResult = NotReturned

\* safe_json_parse(json_str) is called with the default default, None
RepairStart ==
    /\ \/ json_str \in OtherTexts
       \/ \E n \in 1..MaxMembers : json_str \in ObjectTextsOf(n)
    /\ cleaned_text = <<>>
    /\ repairPc = "start"
    /\ repairResult = NotReturned

\* if not json_str or not isinstance(json_str, str): return default
RepairEmpty ==
    /\ repairPc = "start"
    /\ json_str = <<>>
    /\ repairResult' = DefaultReturned
    /\ repairPc' = "returned"
    /\ UNCHANGED <<json_str, cleaned_text, lateVars, loadVars, cacheVars, batchVars,
                   gatewayVars, priorityVars, qualityVars>>

\* cleaned_text = JSONUtils._basic_clean(json_str)
RepairBasicClean ==
    /\ repairPc = "start"
    /\ json_str # <<>>
    /\ cleaned_text' = _basic_clean(json_str)
    /\ repairPc' = "cleaned"
    /\ UNCHANGED <<json_str, repairResult, lateVars, loadVars, cacheVars, batchVars,
                   gatewayVars, priorityVars, qualityVars>>

\* cleaned_text = JSONUtils._fix_common_json_issues(cleaned_text)
RepairFix ==
    /\ repairPc = "cleaned"
    /\ cleaned_text' = _fix_common_json_issues(cleaned_text)
    /\ repairPc' = "fixed"
    /\ UNCHANGED <<json_str, repairResult, lateVars, loadVars, cacheVars, batchVars,
                   gatewayVars, priorityVars, qualityVars>>

\* return json.loads(cleaned_text), or JSONDecodeError is caught
RepairDecode ==
    /\ repairPc = "fixed"
    /\ LET r == loads(cleaned_text) IN
       IF r.ok
       THEN repairResult' = Decoded(r.val) /\ repairPc' = "returned"
       ELSE repairResult' = repairResult /\ repairPc' = "failed"
    /\ UNCHANGED <<json_str, cleaned_text, lateVars, loadVars, cacheVars, batchVars,
                   gatewayVars, priorityVars, qualityVars>>

\* the except branch: repaired = _aggressive_json_repair(cleaned_text);
\* return json.loads(repaired), or default when that raises
RepairAggressive ==
    /\ repairPc = "failed"
    /\ LET r == loads(_aggressive_json_repair(cleaned_text)) IN
       repairResult' = IF r.ok THEN Decoded(r.val) ELSE DefaultReturned
    /\ repairPc' = "returned"
    /\ UNCHANGED <<json_str, cleaned_text, lateVars, loadVars, cacheVars, batchVars,
                   gatewayVars, priorityVars, qualityVars>>

(***************************************************************************)
(* PrioritySystem (src/core/processing/priority_system.py).  An event is   *)
(* its six scored fields; Absent stands for a key the event does not have. *)
(* confidence and the time penalty are counted in tenths, so a score is    *)
(* counted in hundredths of a point: 100 points are 10000.                 *)
(***************************************************************************)
Absent == "<absent>"

\* core_event is named by the keyword it contains ("plain": none of them).
CrisisWord == "crisis"        \* one of the market_crisis keywords
PolicyWord == "policy"        \* one of the policy_change keywords
EarningsWord == "earnings"    \* one of the earnings_surprise keywords
HoldingMarker == "holding"    \* the list item the portfolio rule looks for

NoAssets == [present |-> FALSE, items |-> <<>>]
Assets(items) == [present |-> TRUE, items |-> items]

NoTimestamp == [fmt |-> "none", age |-> 0]
EpochTimestamp(minutes) == [fmt |-> "epoch", age |-> minutes]   \* a number of seconds
IsoZTimestamp(minutes) == [fmt |-> "iso_z", age |-> minutes]    \* ISO text ending in Z
UnparseableTimestamp == [fmt |-> "text", age |-> 0]             \* a text that is no date

ImpactChoices == {"low", "medium", "high", Absent}
HorizonChoices == {"short", "mid", "long"}
ConfidenceChoices == {2, 9}
CoreEventChoices == {"plain", CrisisWord, PolicyWord, EarningsWord, Absent}
AssetChoices == {NoAssets, Assets(<<"other">>), Assets(<<HoldingMarker>>)}
TimestampChoices ==
    {NoTimestamp, EpochTimestamp(30), EpochTimestamp(120), IsoZTimestamp(120),
     UnparseableTimestamp}

PriorityEvents ==
    [impact_level : ImpactChoices, time_horizon : HorizonChoices,
     confidence : ConfidenceChoices, core_event : CoreEventChoices,
     affected_assets : AssetChoices, timestamp : TimestampChoices]

\* _load_priority_rules, in the order of the dict
Condition(f, v, op) == [field |-> f, value |-> v, operator |-> op]
priority_rules ==
    << [score |-> 100, conditions |->
            <<Condition("impact_level", "high", "equals"),
              Condition("time_horizon", "short", "equals")>>],
       [score |-> 80, conditions |->
            <<Condition("impact_level", "high", "equals"),
              Condition("time_horizon", "mid", "equals")>>],
       [score |-> 90, conditions |->
            <<Condition("affected_assets", HoldingMarker, "contains_any"),
              Condition("impact_level", "medium", "gte")>>],
       [score |-> 95, conditions |->
            <<Condition("core_event", CrisisWord, "contains_any")>>],
       [score |-> 85, conditions |->
            <<Condition("core_event", PolicyWord, "contains_any")>>],
       [score |-> 70, conditions |->
            <<Condition("core_event", EarningsWord, "contains_any"),
              Condition("impact_level", "medium", "gte")>>] >>

\* impact_levels.index(level), 0-based; the list is ["low", "medium", "high"]
LevelIndex(level) == CASE level = "low" -> 0 [] level = "medium" -> 1 [] level = "high" -> 2

\* One condition of _matches_rule, current_holdings being None as in
\* main.py: "pass", "fail" (return False) or "raise" (ValueError of index).
\* A field that is neither a string nor a list passes contains_any unchecked.
CheckCondition(event, condition) ==
    CASE condition.operator = "equals" ->
            IF (IF condition.field = "impact_level" THEN event.impact_level
                ELSE event.time_horizon) = condition.value
            THEN "pass" ELSE "fail"
      [] condition.operator = "gte" ->
            IF event.impact_level = Absent THEN "raise"
            ELSE IF LevelIndex(event.impact_level) < LevelIndex(condition.value)
                 THEN "fail" ELSE "pass"
      [] condition.operator = "contains_any" ->
            IF condition.field = "core_event"
            THEN IF event.core_event \in {condition.value, Absent} THEN "pass" ELSE "fail"
            ELSE IF ~event.affected_assets.present THEN "pass"
            ELSE IF \E k \in 1..Len(event.affected_assets.items) :
                        event.affected_assets.items[k] = condition.value
                 THEN "pass" ELSE "fail"

RECURSIVE MatchConditions(_, _, _)
MatchConditions(event, conditions, k) ==
    IF k > Len(conditions) THEN "pass"
    ELSE LET c == CheckCondition(event, conditions[k]) IN
         IF c = "pass" THEN MatchConditions(event, conditions, k + 1) ELSE c

\* _matches_rule
_matches_rule(event, rule) == MatchConditions(event, rule.conditions, 1)

RECURSIVE ApplyRules(_, _, _)
\* _apply_priority_rules: the total bonus, or raised when a rule raises
ApplyRules(event, k, total_bonus) ==
    IF k > Len(priority_rules) THEN [raised |-> FALSE, bonus |-> total_bonus]
    ELSE LET m == _matches_rule(event, priority_rules[k]) IN
         IF m = "raise" THEN [raised |-> TRUE, bonus |-> 0]
         ELSE ApplyRules(event, k + 1,
                         IF m = "pass" THEN total_bonus + priority_rules[k].score
                         ELSE total_bonus)

_apply_priority_rules(event) == ApplyRules(event, 1, 0)

\* _calculate_time_penalty in tenths.  The age is in minutes.  An ISO text
\* with a zone gives an aware datetime, datetime.now() - event_dt raises
\* TypeError and the except branch returns 0.7; so it does when
\* fromisoformat raises ValueError on a text that is no date.
_calculate_time_penalty(event) ==
    LET t == event.timestamp IN
    IF t.fmt = "none" THEN 10
    ELSE IF t.fmt \in {"iso_z", "text"} THEN 7
    ELSE IF t.age <= 60 THEN 10
    ELSE IF t.age <= 24 * 60 THEN 8
    ELSE IF t.age <= 72 * 60 THEN 5
    ELSE 3

\* impact_scores.get(event.get('impact_level', 'low'), 10)
ImpactScore(level) == CASE level = "medium" -> 50 [] level = "high" -> 100 [] OTHER -> 10
\* time_scores.get(event.get('time_horizon', 'mid'), 15)
TimeScore(horizon) ==
    CASE horizon = "short" -> 30 [] horizon = "mid" -> 20 [] horizon = Absent -> 20
      [] horizon = "long" -> 10 [] OTHER -> 15

\* max(0, min(100, base_score)) in hundredths
ClampFromBelowOnly(base_score) == IF base_score < 0 THEN 0 ELSE base_score
Clamp(base_score) ==
    IF base_score > 100 * 100 THEN 100 * 100 ELSE IF base_score < 0 THEN 0 ELSE base_score

\* calculate_priority_score in hundredths; raised when a rule raises
calculate_priority_score(event) ==
    LET base_score == ImpactScore(event.impact_level) + TimeScore(event.time_horizon)
        rules == _apply_priority_rules(event)
    IN [raised |-> rules.raised,
        score |-> Clamp((base_score * event.confidence + rules.bonus * 10)
                            * _calculate_time_penalty(event))]

\* _score_to_level on a score in hundredths
_score_to_level(score) ==
    IF score >= 80 * 100 THEN "critical"
    ELSE IF score >= 60 * 100 THEN "high"
    ELSE IF score >= 40 * 100 THEN "medium"
    ELSE IF score >= 20 * 100 THEN "low"
    ELSE "minimal"

\* list.sort(key=priority_score, reverse=True): one element put into a list
\* already in order.  The sort is stable, with reverse as well: an element
\* goes behind the elements of equal score that came before it.
RECURSIVE InsertBeforeEqual(_, _), InsertByScore(_, _), SortByScore(_)
InsertBeforeEqual(sorted, x) ==
    IF sorted = <<>> THEN <<x>>
    ELSE IF sorted[1].priority_score > x.priority_score
         THEN <<sorted[1]>> \o InsertBeforeEqual(Tail(sorted), x)
         ELSE <<x>> \o sorted
InsertByScore(sorted, x) ==
    IF sorted = <<>> THEN <<x>>
    ELSE IF sorted[1].priority_score >= x.priority_score
         THEN <<sorted[1]>> \o InsertByScore(Tail(sorted), x)
         ELSE <<x>> \o sorted
SortByScore(list) ==
    IF list = <<>> THEN <<>>
    ELSE InsertByScore(SortByScore(SubSeq(list, 1, Len(list) - 1)), list[Len(list)])

\* {**event, 'priority_score': score, 'priority_level': level}; pos records
\* which input event the copy was made of
Scored(event, score, pos) ==
    [event |-> event, priority_score |-> score,
     priority_level |-> _score_to_level(score), pos |-> pos]

\* An event that differs from e in at most one of confidence, timestamp (a
\* timestamp that names a time, or none) and impact_level.
Variants(e) ==
    {[e EXCEPT !.confidence = c] : c \in ConfidenceChoices}
        \cup {[e EXCEPT !.timestamp = t] : t \in TimestampChoices \ {UnparseableTimestamp}}
        \cup {[e EXCEPT !.impact_level = "low"]}

RECURSIVE EventListsOf(_)
\* the lists of n events, each a variant of the one before it
EventListsOf(n) ==
    IF n = 0 THEN {<<>>}
    ELSE IF n = 1 THEN {<<e>> : e \in PriorityEvents}
    ELSE UNION {{Append(l, e) : e \in Variants(l[n - 1])} : l \in EventListsOf(n - 1)}

PriorityIdle ==
    /\ prioInput = <<>>
    /\ scored_events = <<>>
    /\ prioPc = "idle"

\* prioritize_events(events) is called, current_holdings = None (main.py:70)
PriorityStart ==
    /\ \E n \in 0..MaxEvents : prioInput \in EventListsOf(n)
    /\ scored_events = <<>>
    /\ prioPc = "scoring"

\* one turn of the loop: the next event is scored and its copy appended
PrioScore ==
    /\ prioPc = "scoring"
    /\ Len(scored_events) < Len(prioInput)
    /\ LET pos == Len(scored_events) + 1
           r == calculate_priority_score(prioInput[pos])
       IN /\ ~r.raised
          /\ scored_events' = Append(scored_events, Scored(prioInput[pos], r.score, pos))
    /\ UNCHANGED <<prioInput, prioPc, lateVars, loadVars, cacheVars, batchVars,
                   gatewayVars, repairVars, qualityVars>>

\* one turn of the loop: scoring the next event raises, and so does
\* prioritize_events
PrioRaise ==
    /\ prioPc = "scoring"
    /\ Len(scored_events) < Len(prioInput)
    /\ calculate_priority_score(prioInput[Len(scored_events) + 1]).raised
    /\ prioPc' = "raised"
    /\ UNCHANGED <<prioInput, scored_events, lateVars, loadVars, cacheVars, batchVars,
                   gatewayVars, repairVars, qualityVars>>

\* after the loop: scored_events.sort(...), return scored_events
PrioReturn ==
    /\ prioPc = "scoring"
    /\ Len(scored_events) = Len(prioInput)
    /\ scored_events' = SortByScore(scored_events)
    /\ prioPc' = "returned"
    /\ UNCHANGED <<prioInput, lateVars, loadVars, cacheVars, batchVars,
                   gatewayVars, repairVars, qualityVars>>

(***************************************************************************)
(* QualityAssurance.validate_event_extraction                              *)
(* (src/core/quality/quality_assurance.py).  A field of a record is a      *)
(* typed value: a text (s its content, n its length), a number (n, in      *)
(* tenths), null, or absent.                                               *)
(***************************************************************************)
AbsentField == [t |-> "absent", s |-> "", n |-> 0]
NullField == [t |-> "null", s |-> "", n |-> 0]
TextField(x, length) == [t |-> "str", s |-> x, n |-> length]
NumberField(tenths) == [t |-> "num", s |-> "", n |-> tenths]
ListField(length) == [t |-> "list", s |-> "", n |-> length]

ValidRecord ==
    [core_event |-> TextField("event", 20), impact_level |-> TextField("high", 4),
     time_horizon |-> TextField("short", 5), affected_assets |-> ListField(2),
     confidence |-> NumberField(9)]

\* Records that fail one check each, and two with a field of another type.
InvalidRecords ==
    { [ValidRecord EXCEPT !.impact_level = AbsentField],
      [ValidRecord EXCEPT !.time_horizon = TextField("soon", 4)],
      [ValidRecord EXCEPT !.confidence = NumberField(15)],
      [ValidRecord EXCEPT !.core_event = TextField("event", 4)],
      [ValidRecord EXCEPT !.core_event = TextField("event", 5)],
      [ValidRecord EXCEPT !.core_event = TextField("event", 500)],
      [ValidRecord EXCEPT !.core_event = TextField("event", 501)],
      [ValidRecord EXCEPT !.confidence = TextField("0.9", 3)],
      [ValidRecord EXCEPT !.core_event = NullField] }

\* Records without one of the two fields the rules do not name, and records
\* whose core_event is as short and as long as the content validators let
\* pass.
OtherRecords ==
    { [ValidRecord EXCEPT !.confidence = AbsentField],
      [ValidRecord EXCEPT !.affected_assets = AbsentField],
      [ValidRecord EXCEPT !.core_event = TextField("event", 6)],
      [ValidRecord EXCEPT !.core_event = TextField("event", 499)] }

\* The lists of n records that are ValidRecord but for copies of one other
\* record.
RecordListsOf(n) ==
    {[i \in 1..n |-> IF i \in bad THEN r ELSE ValidRecord] :
        bad \in SUBSET (1..n), r \in InvalidRecords \cup OtherRecords}

\* validation_rules["event_extraction"]
required_fields == <<"core_event", "impact_level", "time_horizon">>
validated_fields == <<"impact_level", "time_horizon", "confidence">>

FieldOf(event, field) ==
    CASE field = "core_event" -> event.core_event
      [] field = "impact_level" -> event.impact_level
      [] field = "time_horizon" -> event.time_horizon
      [] field = "confidence" -> event.confidence

\* field_validators[field](x): "ok", "invalid", or "raise" when the lambda
\* raises TypeError (0 <= x <= 1 on a value that is not a number)
FieldValidator(field, x) ==
    CASE field = "impact_level" ->
            IF x.t = "str" /\ x.s \in {"low", "medium", "high"} THEN "ok" ELSE "invalid"
      [] field = "time_horizon" ->
            IF x.t = "str" /\ x.s \in {"short", "mid", "long"} THEN "ok" ELSE "invalid"
      [] field = "confidence" ->
            IF x.t # "num" THEN "raise"
            ELSE IF 0 <= x.n /\ x.n <= 10 THEN "ok" ELSE "invalid"

\* len(event.get('core_event', '')): raised when the value is null or a number
CoreEventLen(event) ==
    LET x == event.core_event IN
    IF x.t = "absent" THEN [raised |-> FALSE, len |-> 0]
    ELSE IF x.t = "str" THEN [raised |-> FALSE, len |-> x.n]
    ELSE [raised |-> TRUE, len |-> 0]

RECURSIVE MissingErrors(_, _), ValidatorErrors(_, _)
\* the loop over required_fields
MissingErrors(event, k) ==
    IF k > Len(required_fields) THEN <<>>
    ELSE (IF FieldOf(event, required_fields[k]).t = "absent"
          THEN <<[kind |-> "missing", field |-> required_fields[k]]>> ELSE <<>>)
             \o MissingErrors(event, k + 1)

\* the loop over field_validators
ValidatorErrors(event, k) ==
    IF k > Len(validated_fields) THEN <<>>
    ELSE LET x == FieldOf(event, validated_fields[k]) IN
         (IF x.t # "absent" /\ FieldValidator(validated_fields[k], x) = "invalid"
          THEN <<[kind |-> "invalid", field |-> validated_fields[k]]>> ELSE <<>>)
             \o ValidatorErrors(event, k + 1)

ValidatorRaises(event) ==
    \E k \in 1..Len(validated_fields) :
        LET x == FieldOf(event, validated_fields[k]) IN
        x.t # "absent" /\ FieldValidator(validated_fields[k], x) = "raise"

\* the loop over content_validators: length > 5, length < 500
ContentErrors(event) ==
    LET l == CoreEventLen(event).len IN
    (IF l > 5 THEN <<>> ELSE <<[kind |-> "content", field |-> "core_event"]>>)
        \o (IF l < 500 THEN <<>> ELSE <<[kind |-> "content", field |-> "core_event"]>>)

\* _validate_single_event(event, "event_extraction"): the errors, or raised
_validate_single_event(event) ==
    IF ValidatorRaises(event) \/ CoreEventLen(event).raised
    THEN [raised |-> TRUE, errors |-> <<>>]
    ELSE [raised |-> FALSE,
          errors |-> MissingErrors(event, 1) \o ValidatorErrors(event, 1)
                         \o ContentErrors(event)]

\* errors.append(f"事件{i + 1}: ..."), i being the 0-based index of enumerate
ErrorEntryZeroBased(i, event_errors) == [position |-> i, messages |-> event_errors]
ErrorEntry(i, event_errors) == [position |-> i + 1, messages |-> event_errors]

\* validity_ratio >= 0.8, the ratio being valid_count / len(events), or 0
\* for no events; the quotients met here compare as the exact fractions do
MeetsThresholdStrictly(valid, total) == total # 0 /\ valid * 10 > 8 * total
MeetsThreshold(valid, total) == total # 0 /\ valid * 10 >= 8 * total

NoVerdict == "<none>"

QualityIdle ==
    /\ gateInput = <<>>
    /\ gateEvents = <<>>
    /\ gateIdx = 0
    /\ valid_count = 0
    /\ errors = <<>>
    /\ quality_metrics = <<>>
    /\ gateResult = NoVerdict
    /\ gatePc = "idle"

\* validate_event_extraction(events) is called on a new QualityAssurance
QualityStart ==
    /\ \E n \in 0..MaxRecords : gateInput \in RecordListsOf(n)
    /\ gateEvents = gateInput
    /\ gateIdx = 0
    /\ valid_count = 0
    /\ errors = <<>>
    /\ quality_metrics = <<>>
    /\ gateResult = NoVerdict
    /\ gatePc = "loop"

\* one turn of the loop on a record without errors
GateValid ==
    /\ gatePc = "loop"
    /\ gateIdx < Len(gateEvents)
    /\ LET r == _validate_single_event(gateEvents[gateIdx + 1]) IN
       ~r.raised /\ r.errors = <<>>
    /\ valid_count' = valid_count + 1
    /\ gateIdx' = gateIdx + 1
    /\ UNCHANGED <<gateInput, gateEvents, errors, quality_metrics, gateResult, gatePc,
                   lateVars, loadVars, cacheVars, batchVars, gatewayVars, repairVars, priorityVars>>

\* one turn of the loop on a record with errors
GateInvalid ==
    /\ gatePc = "loop"
    /\ gateIdx < Len(gateEvents)
    /\ LET r == _validate_single_event(gateEvents[gateIdx + 1]) IN
       /\ ~r.raised
       /\ r.errors # <<>>
       /\ errors' = Append(errors, ErrorEntry(gateIdx, r.errors))
    /\ gateIdx' = gateIdx + 1
    /\ UNCHANGED <<gateInput, gateEvents, valid_count, quality_metrics, gateResult, gatePc,
                   lateVars, loadVars, cacheVars, batchVars, gatewayVars, repairVars, priorityVars>>

\* one turn of the loop on a record a validator raises on: the exception
\* leaves validate_event_extraction
GateRaise ==
    /\ gatePc = "loop"
    /\ gateIdx < Len(gateEvents)
    /\ _validate_single_event(gateEvents[gateIdx + 1]).raised
    /\ gatePc' = "raised"
    /\ UNCHANGED <<gateInput, gateEvents, gateIdx, valid_count, errors, quality_metrics,
                   gateResult, lateVars, loadVars, cacheVars, batchVars, gatewayVars, repairVars,
                   priorityVars>>

\* after the loop: the ratio is recorded (_record_metric keeps the last 100)
\* and (is_valid, errors) returned
GateReturn ==
    /\ gatePc = "loop"
    /\ gateIdx = Len(gateEvents)
    /\ quality_metrics' =
          LET all == Append(quality_metrics,
                            [valid |-> valid_count, total |-> Len(gateEvents)])
          IN IF Len(all) > 100 THEN SubSeq(all, Len(all) - 99, Len(all)) ELSE all
    /\ gateResult' = IF MeetsThreshold(valid_count, Len(gateEvents)) THEN "valid" ELSE "invalid"
    /\ gatePc' = "returned"
    /\ UNCHANGED <<gateInput, gateEvents, gateIdx, valid_count, errors,
                   lateVars, loadVars, cacheVars, batchVars, gatewayVars, repairVars, priorityVars>>

(***************************************************************************)
(* PerformanceMonitor (src/core/monitoring/performance_monitor.py): the    *)
(* calling thread makes start_monitoring and stop_monitoring calls; each   *)
(* start_monitoring call starts one sampler thread that runs               *)
(* _monitoring_loop.  The steps of the threads interleave.                 *)
(***************************************************************************)
Threads == 1..MaxStarts
NoThread == 0

\* after __init__
MonitorFresh ==
    /\ _stop_monitoring = FALSE
    /\ _monitoring_thread = NoThread
    /\ threadPc = [t \in Threads |-> "unborn"]
    /\ samples = 0
    /\ callerPc = "idle"
    /\ monitorState = "fresh"
    /\ starts = 0

\* start_monitoring(): the flag is cleared, a new thread is stored in
\* self._monitoring_thread (whatever thread was stored there) and started.
StartMonitoring ==
    /\ callerPc = "idle"
    /\ starts < MaxStarts
    /\ _stop_monitoring' = FALSE
    /\ _monitoring_thread' = starts + 1
    /\ threadPc' = [threadPc EXCEPT ![starts + 1] = "check"]
    /\ starts' = starts + 1
    /\ monitorState' = "started"
    /\ UNCHANGED <<samples, callerPc, notMonitorVars>>

\* stop_monitoring() up to the join: the flag is set; without a stored
\* thread the call returns at once.
StopMonitoringCall ==
    /\ callerPc = "idle"
    /\ _stop_monitoring' = TRUE
    /\ IF _monitoring_thread = NoThread
       THEN /\ monitorState' = "stopped"
            /\ callerPc' = callerPc
       ELSE /\ monitorState' = "stopping"
            /\ callerPc' = "joining"
    /\ UNCHANGED <<_monitoring_thread, threadPc, samples, starts, notMonitorVars>>

\* self._monitoring_thread.join() returns once that thread has ended, and
\* stop_monitoring returns.
StopMonitoringJoin ==
    /\ callerPc = "joining"
    /\ threadPc[_monitoring_thread] = "done"
    /\ callerPc' = "idle"
    /\ monitorState' = "stopped"
    /\ UNCHANGED <<_stop_monitoring, _monitoring_thread, threadPc, samples, starts,
                   notMonitorVars>>

\* `while not self._stop_monitoring:` in thread t
LoopCheck(t) ==
    /\ threadPc[t] = "check"
    /\ threadPc' = [threadPc EXCEPT ![t] = IF _stop_monitoring THEN "done" ELSE "record"]
    /\ UNCHANGED <<_stop_monitoring, _monitoring_thread, samples, callerPc,
                   monitorState, starts, notMonitorVars>>

\* self._record_system_metrics() in thread t appends a sample
LoopRecord(t) ==
    /\ threadPc[t] = "record"
    /\ samples < MaxSamples
    /\ samples' = samples + 1
    /\ threadPc' = [threadPc EXCEPT ![t] = "sleep"]
    /\ UNCHANGED <<_stop_monitoring, _monitoring_thread, callerPc, monitorState,
                   starts, notMonitorVars>>

\* self._record_system_metrics() raises in thread t: the except branch logs
\* and the loop goes on
LoopRecordFails(t) ==
    /\ threadPc[t] = "record"
    /\ threadPc' = [threadPc EXCEPT ![t] = "check"]
    /\ UNCHANGED <<_stop_monitoring, _monitoring_thread, samples, callerPc,
                   monitorState, starts, notMonitorVars>>

\* time.sleep(interval) ends in thread t
LoopSleep(t) ==
    /\ threadPc[t] = "sleep"
    /\ threadPc' = [threadPc EXCEPT ![t] = "check"]
    /\ UNCHANGED <<_stop_monitoring, _monitoring_thread, samples, callerPc,
                   monitorState, starts, notMonitorVars>>

(***************************************************************************)
(* OptimizedInvestmentSystem._batch_extract_events (src/main.py).  An item *)
(* is named by its place in the list handed in; an event is named by the   *)
(* _process_news_batch call that returned it and its place in that call's  *)
(* list.                                                                   *)
(***************************************************************************)
\* seq[start:end] with 0-based bounds, as a Python slice: the end is cut
\* down to the length
Slice(seq, start, end) ==
    LET last == IF end > Len(seq) THEN Len(seq) ELSE end IN
    IF start >= last THEN <<>> ELSE SubSeq(seq, start + 1, last)

\* total_batches = (len(news_items) + batch_size - 1) // batch_size
TotalBatchesRoundedDown(n, per_batch) == n \div per_batch
total_batches(n, per_batch) == (n + per_batch - 1) \div per_batch

\* min((batch_num + 1) * batch_size, len(news_items))
EndIdx(num, per_batch, n) ==
    IF (num + 1) * per_batch < n THEN (num + 1) * per_batch ELSE n

\* what _process_news_batch may return for the call number num: any number
\* of events
BatchEventLists(num) ==
    {[k \in 1..m |-> [call |-> num, k |-> k]] : m \in 0..MaxBatchEvents}

NoResult == [returned |-> FALSE, extracted_events |-> <<>>, total_processed |-> 0]

DriverIdle ==
    /\ news_items = <<>>
    /\ batch_size = 0
    /\ batch_num = 0
    /\ extracted = <<>>
    /\ batchLog = <<>>
    /\ driverResult = NoResult
    /\ driverPc = "idle"

\* _batch_extract_events(news_items, batch_size) is called
DriverStart ==
    /\ \E n \in 0..MaxItems : news_items = [i \in 1..n |-> i]
    /\ batch_size \in 1..MaxBatchSize
    /\ batch_num = 0
    /\ extracted = <<>>
    /\ batchLog = <<>>
    /\ driverResult = NoResult
    /\ driverPc = "loop"

\* `if not news_items: return {"extracted_events": [], "total_processed": 0}`
DriverEmpty ==
    /\ driverPc = "loop"
    /\ news_items = <<>>
    /\ driverResult' = [returned |-> TRUE, extracted_events |-> <<>>, total_processed |-> 0]
    /\ driverPc' = "returned"
    /\ UNCHANGED <<news_items, batch_size, batch_num, extracted, batchLog, notDriverVars>>

\* one turn of `for batch_num in range(total_batches)`: the slice, the
\* _process_news_batch call and all_events.extend(batch_events)
DriverBatch ==
    /\ driverPc = "loop"
    /\ news_items # <<>>
    /\ batch_num < total_batches(Len(news_items), batch_size)
    /\ LET start_idx == batch_num * batch_size
           end_idx == EndIdx(batch_num, batch_size, Len(news_items))
           batch_news == Slice(news_items, start_idx, end_idx)
       IN \E batch_events \in BatchEventLists(batch_num) :
             /\ extracted' = extracted \o batch_events
             /\ batchLog' = Append(batchLog, [news |-> batch_news, events |-> batch_events])
    /\ batch_num' = batch_num + 1
    /\ UNCHANGED <<news_items, batch_size, driverResult, driverPc, notDriverVars>>

\* the loop is over: the dict is returned
DriverReturn ==
    /\ driverPc = "loop"
    /\ news_items # <<>>
    /\ batch_num >= total_batches(Len(news_items), batch_size)
    /\ driverResult' = [returned |-> TRUE, extracted_events |-> extracted,
                       total_processed |-> Len(news_items)]
    /\ driverPc' = "returned"
    /\ UNCHANGED <<news_items, batch_size, batch_num, extracted, batchLog, notDriverVars>>

(***************************************************************************)
(* QualityAssurance.validate_portfolio_optimization and                    *)
(* _check_allocation_sum (src/core/quality/quality_assurance.py).  An      *)
(* entry of target_allocation declares its target_weight as a text with a  *)
(* percent sign ("60%"), a text without one ("60") or a number (60), or    *)
(* declares none; the weights are whole numbers.                           *)
(***************************************************************************)
Undeclared == [form |-> "undeclared", value |-> 0]
WeightForms == {"percent", "plain", "number"}
WeightValues == {40, 54, 55, 65, 66}
AllocationEntries == [form : WeightForms, value : WeightValues] \cup {Undeclared}

RECURSIVE AllocationsOf(_)
\* the allocations of n asset classes
AllocationsOf(n) ==
    IF n = 0 THEN {<<>>}
    ELSE {Append(a, e) : a \in AllocationsOf(n - 1), e \in AllocationEntries}

OptimizationTypes == {"strategic", "momentum", Absent}

\* the allocation sum may be 95 to 105
LowestSum == 95
HighestSum == 105

\* the try block on weight_str: '%' in weight_str raises TypeError on a
\* number, the except branch skips the entry
Parses(entry) == entry.form \in {"percent", "plain"}

\* field_validators["optimization_type"]
ValidOptimizationType(x) == x \in {"strategic", "tactical", "rebalancing"}

\* lines 92-102: the required fields and the field validators
FieldErrors(opt) ==
    (IF opt.target_allocation.present THEN <<>>
     ELSE <<[kind |-> "missing", field |-> "target_allocation"]>>)
    \o (IF opt.optimization_type # Absent THEN <<>>
        ELSE <<[kind |-> "missing", field |-> "optimization_type"]>>)
    \o (IF opt.optimization_type # Absent /\ ~ValidOptimizationType(opt.optimization_type)
        THEN <<[kind |-> "invalid", field |-> "optimization_type"]>> ELSE <<>>)

PortfolioIdle ==
    /\ optimization = [optimization_type |-> Absent,
                       target_allocation |-> [present |-> FALSE, entries |-> <<>>]]
    /\ portErrors = <<>>
    /\ allocIdx = 0
    /\ total_weight = 0
    /\ portResult = NoVerdict
    /\ portPc = "idle"

\* validate_portfolio_optimization(optimization) is called
PortfolioStart ==
    /\ \E ty \in OptimizationTypes, present \in BOOLEAN :
          \E n \in 0..(IF present THEN MaxAssets ELSE 0) :
             \E a \in AllocationsOf(n) :
                optimization = [optimization_type |-> ty,
                                target_allocation |-> [present |-> present, entries |-> a]]
    /\ portErrors = <<>>
    /\ allocIdx = 0
    /\ total_weight = 0
    /\ portResult = NoVerdict
    /\ portPc = "fields"

\* the two loops over required_fields and field_validators
PortfolioFields ==
    /\ portPc = "fields"
    /\ portErrors' = FieldErrors(optimization)
    /\ portPc' = "sum"
    /\ UNCHANGED <<optimization, allocIdx, total_weight, portResult, notPortfolioVars>>

\* one turn of the loop of _check_allocation_sum on an entry whose weight
\* is parsed and added
AllocationAdd ==
    /\ portPc = "sum"
    /\ allocIdx < Len(optimization.target_allocation.entries)
    /\ LET entry == optimization.target_allocation.entries[allocIdx + 1] IN
       /\ Parses(entry)
       /\ total_weight' = total_weight + entry.value
    /\ allocIdx' = allocIdx + 1
    /\ UNCHANGED <<optimization, portErrors, portResult, portPc, notPortfolioVars>>

\* one turn of that loop on an entry without target_weight, or whose
\* weight makes the try block raise (`continue`)
AllocationSkip ==
    /\ portPc = "sum"
    /\ allocIdx < Len(optimization.target_allocation.entries)
    /\ ~Parses(optimization.target_allocation.entries[allocIdx + 1])
    /\ allocIdx' = allocIdx + 1
    /\ UNCHANGED <<optimization, portErrors, total_weight, portResult, portPc,
                   notPortfolioVars>>

\* `return 95 <= total_weight <= 105`, the error of a failed check, and
\* is_valid = len(errors) == 0
PortfolioReturn ==
    /\ portPc = "sum"
    /\ allocIdx = Len(optimization.target_allocation.entries)
    /\ portErrors' =
          IF LowestSum <= total_weight /\ total_weight <= HighestSum THEN portErrors
          ELSE Append(portErrors, [kind |-> "allocation", field |-> "target_allocation"])
    /\ portResult' = IF portErrors' = <<>> THEN "valid" ELSE "invalid"
    /\ portPc' = "returned"
    /\ UNCHANGED <<optimization, allocIdx, total_weight, notPortfolioVars>>

(***************************************************************************)
(* SmartCache.get_key (src/core/cache/smart_cache.py:21-31).  The data are *)
(* decoded values: the keys of an object are kept in insertion order.      *)
(***************************************************************************)
Sq(x) == [k |-> "sq", s |-> x, n |-> 0]        \* a string literal 'x', as repr writes it

\* the keys of the objects of the model, in the order sort_keys puts them
KeyOrder == <<"a", "b", "m">>

\* the keys of the object as the text lists them: sorted, or as inserted
MemberOrder(obj, sort_keys) ==
    IF sort_keys THEN SelectSeq(KeyOrder, LAMBDA key : ObjHas(obj, key)) ELSE obj.keys

RECURSIVE Render(_, _), RenderItems(_, _, _), RenderMembers(_, _, _, _)
\* json.dumps(v, sort_keys=True) when sort_keys, str(v) when not: both go
\* through the whole value, sort_keys at every depth
Render(v, sort_keys) ==
    CASE v.t = "num" -> <<N(v.n)>>
      [] v.t = "str" -> <<IF sort_keys THEN S(v.s) ELSE Sq(v.s)>>
      [] v.t = "null" -> <<IF sort_keys THEN Null ELSE W("None")>>
      [] v.t = "list" -> <<P("[")>> \o RenderItems(v.items, 1, sort_keys) \o <<P("]")>>
      [] v.t = "obj" ->
            <<P("{")>> \o RenderMembers(v, MemberOrder(v, sort_keys), 1, sort_keys)
                \o <<P("}")>>
RenderItems(xs, i, sort_keys) ==
    IF i > Len(xs) THEN <<>>
    ELSE Render(xs[i], sort_keys) \o (IF i < Len(xs) THEN <<P(",")>> ELSE <<>>)
            \o RenderItems(xs, i + 1, sort_keys)
RenderMembers(obj, order, i, sort_keys) ==
    IF i > Len(order) THEN <<>>
    ELSE <<IF sort_keys THEN S(order[i]) ELSE Sq(order[i]), P(":")>>
            \o Render(ObjGet(obj, order[i], JNull), sort_keys)
            \o (IF i < Len(order) THEN <<P(",")>> ELSE <<>>)
            \o RenderMembers(obj, order, i + 1, sort_keys)

\* hashlib.md5(text.encode()).hexdigest(): the digest is named by the text
\* it is of; no two texts of the model have the same digest
hexdigest(text) == [md5_of |-> text]

\* get_key(data, prefix) with a prefix that is not empty: f"{prefix}_{key}"
get_key(data, prefix) ==
    LET data_str == IF data.t = "obj" THEN Render(data, TRUE)      \* isinstance(data, dict)
                    ELSE IF data.t = "str" THEN <<W(data.s)>>      \* isinstance(data, str)
                    ELSE Render(data, FALSE)                       \* str(data)
    IN [prefix |-> prefix, key |-> hexdigest(<<W(prefix)>> \o data_str)]

(***************************************************************************)
(* AsyncProcessingEngine.process_batch_async                               *)
(* (src/core/processing/async_engine.py:15-62).  The tasks of a batch are  *)
(* coroutines of one event loop: a task runs from one await to the next    *)
(* without another task in between.  gather starts the tasks of the batch  *)
(* in order, each up to its first await, before the loop resumes a task    *)
(* whose process_func has finished in the thread pool.                     *)
(***************************************************************************)
\* the items: a string, an object in its two insertion orders, the same
\* inside an object and inside a list
FieldsAB == JObj(<<"a", "b">>, <<JNum(1), JNum(2)>>)
FieldsBA == JObj(<<"b", "a">>, <<JNum(2), JNum(1)>>)
DataItems ==
    {JStr("n1"), FieldsAB, FieldsBA, JObj(<<"m">>, <<FieldsAB>>), JObj(<<"m">>, <<FieldsBA>>),
     JList(<<FieldsAB>>), JList(<<FieldsBA>>)}

\* what process_func does with an item: it returns a value (the oracle
\* behind it may answer differently each time) or raises
ProcessOutcomes == {[kind |-> "value", v |-> "v1"], [kind |-> "value", v |-> "v2"],
                    [kind |-> "error", v |-> "exception"]}
NoOutcome == [kind |-> "none", v |-> ""]
NoKey == [prefix |-> "", key |-> hexdigest(<<>>)]

\* process_func.__name__
ProcessFuncName == "process_func"

Tasks == 1..Len(asyncItems)
\* range(0, len(items), batch_size): the batch a task belongs to, from 0
BatchOf(t) == (t - 1) \div asyncBatchSize

AsyncIdle ==
    /\ asyncItems = <<>>
    /\ max_workers = 0
    /\ asyncBatchSize = 0
    /\ semaphore = 0
    /\ taskPc = <<>>
    /\ taskKey = <<>>
    /\ llm_cache = {}
    /\ invoked = <<>>
    /\ taskResult = <<>>

\* process_batch_async(items, process_func, batch_size) on an engine of
\* max_workers workers and an empty llm_cache
AsyncStart ==
    /\ \E n \in 0..MaxTasks : asyncItems \in [1..n -> DataItems]
    /\ max_workers \in 1..MaxWorkers
    /\ asyncBatchSize \in 1..MaxTasks
    /\ semaphore = max_workers
    /\ taskPc = [t \in Tasks |-> "created"]
    /\ taskKey = [t \in Tasks |-> NoKey]
    /\ llm_cache = {}
    /\ invoked = <<>>
    /\ taskResult = [t \in Tasks |-> NoOutcome]

\* llm_cache.get(cache_key): the stored value, or None
Lookup(key) ==
    IF \E e \in llm_cache : e.key = key
    THEN (CHOOSE e \in llm_cache : e.key = key).value
    ELSE NoOutcome

\* Lines 42-54 once the semaphore is acquired: the key, the lookup, and
\* either the return of the cached value (leaving the semaphore) or the
\* submission of process_func to the executor.
Enter(t) ==
    LET key == get_key(asyncItems[t], ProcessFuncName)
        cached_result == Lookup(key)
    IN /\ taskKey' = [taskKey EXCEPT ![t] = key]
       /\ IF cached_result # NoOutcome
          THEN /\ taskResult' = [taskResult EXCEPT ![t] = cached_result]
               /\ taskPc' = [taskPc EXCEPT ![t] = "done"]
               /\ semaphore' = semaphore
          ELSE /\ taskResult' = taskResult
               /\ taskPc' = [taskPc EXCEPT ![t] = "running"]
               /\ semaphore' = semaphore - 1

\* the loop starts the next task of the batch: `async with self.semaphore`
\* is entered at once when a permit is left, the task waits when none is
TaskStart(t) ==
    /\ t \in Tasks
    /\ taskPc[t] = "created"
    /\ \A u \in Tasks : u < t => taskPc[u] # "created"
    /\ \A u \in Tasks : BatchOf(u) < BatchOf(t) => taskPc[u] = "done"
    /\ IF semaphore > 0
       THEN Enter(t)
       ELSE /\ taskPc' = [taskPc EXCEPT ![t] = "waiting"]
            /\ UNCHANGED <<taskKey, taskResult, semaphore>>
    /\ UNCHANGED <<asyncItems, max_workers, asyncBatchSize, llm_cache, invoked, notAsyncVars>>

\* a permit was released: the task that has waited longest enters
TaskWake(t) ==
    /\ t \in Tasks
    /\ taskPc[t] = "waiting"
    /\ \A u \in Tasks : u < t => taskPc[u] # "waiting"
    /\ semaphore > 0
    /\ Enter(t)
    /\ UNCHANGED <<asyncItems, max_workers, asyncBatchSize, llm_cache, invoked, notAsyncVars>>

\* a thread of the pool calls process_func(item)
ExecutorRun(t) ==
    /\ t \in Tasks
    /\ taskPc[t] = "running"
    /\ \E outcome \in ProcessOutcomes : taskResult' = [taskResult EXCEPT ![t] = outcome]
    /\ invoked' = Append(invoked, t)
    /\ taskPc' = [taskPc EXCEPT ![t] = "processed"]
    /\ UNCHANGED <<asyncItems, max_workers, asyncBatchSize, semaphore, taskKey, llm_cache,
                   notAsyncVars>>

\* Lines 56-62: the task is resumed with the result: llm_cache.set and
\* return result, or return {"error": str(e)}; the semaphore is left
TaskResume(t) ==
    /\ t \in Tasks
    /\ taskPc[t] = "processed"
    /\ \A u \in Tasks : BatchOf(u) = BatchOf(t) => taskPc[u] # "created"
    /\ llm_cache' =
          IF taskResult[t].kind = "value"
          THEN {e \in llm_cache : e.key # taskKey[t]}
                  \cup {[key |-> taskKey[t], value |-> taskResult[t]]}
          ELSE llm_cache
    /\ semaphore' = semaphore + 1
    /\ taskPc' = [taskPc EXCEPT ![t] = "done"]
    /\ UNCHANGED <<asyncItems, max_workers, asyncBatchSize, taskKey, invoked, taskResult,
                   notAsyncVars>>

(***************************************************************************)
(* VLLMModelClient.get_completion_with_retry                               *)
(* (src/core/llm_core/model_client.py:167-196)                             *)
(***************************************************************************)
\* What one get_completion call ends with: a text of the oracle (cached or
\* fresh), an error text of one of its return statements, or an exception
\* that leaves it (the cache lookup stands before its try block).
CompletionOutcomes ==
    {[kind |-> "text", text |-> r] : r \in ResponseTexts}
        \cup {[kind |-> "text", text |-> <<ErrorMarker, "No response choices">>],
              [kind |-> "text", text |-> <<ErrorMarker, "API request failed">>],
              [kind |-> "raise", text |-> <<>>]}

\* result.startswith("Error:")
StartsWithErrorNever(result) == FALSE
StartsWithError(result) == result # <<>> /\ result[1] = ErrorMarker

\* return "Error: All retry attempts failed"
AllFailedText == <<ErrorMarker, "All retry attempts failed">>

RetryIdle ==
    /\ max_retries = 0
    /\ attempt = 0
    /\ retryLog = <<>>
    /\ retryResult = <<>>
    /\ retryPc = "idle"

\* get_completion_with_retry(prompt, system_message, max_retries) is called
RetryStart ==
    /\ max_retries \in 0..MaxRetries
    /\ attempt = 0
    /\ retryLog = <<>>
    /\ retryResult = <<>>
    /\ retryPc = "loop"

\* one turn of the loop whose get_completion returns a text that does not
\* start with "Error:": return result
RetrySuccess ==
    /\ retryPc = "loop"
    /\ attempt < max_retries
    /\ \E outcome \in CompletionOutcomes :
          /\ outcome.kind = "text"
          /\ ~StartsWithError(outcome.text)
          /\ retryLog' = Append(retryLog, outcome)
          /\ retryResult' = outcome.text
    /\ retryPc' = "returned"
    /\ UNCHANGED <<max_retries, attempt, notRetryVars>>

\* one turn whose get_completion returns an error text or raises: the
\* warning is logged (the except clause catches every Exception) and the
\* loop goes on
RetryFailure ==
    /\ retryPc = "loop"
    /\ attempt < max_retries
    /\ \E outcome \in CompletionOutcomes :
          /\ outcome.kind = "raise" \/ StartsWithError(outcome.text)
          /\ retryLog' = Append(retryLog, outcome)
    /\ attempt' = attempt + 1
    /\ UNCHANGED <<max_retries, retryResult, retryPc, notRetryVars>>

\* range(max_retries) is used up: return "Error: All retry attempts failed"
RetryExhausted ==
    /\ retryPc = "loop"
    /\ attempt >= max_retries
    /\ retryResult' = AllFailedText
    /\ retryPc' = "returned"
    /\ UNCHANGED <<max_retries, attempt, retryLog, notRetryVars>>

(***************************************************************************)
(* Specifications.                                                         *)
(***************************************************************************)
EndIdle == AsyncIdle /\ RetryIdle

LateIdle == MonitorFresh /\ DriverIdle /\ PortfolioIdle /\ EndIdle

ToolsIdle == GatewayFresh /\ RepairIdle /\ PriorityIdle /\ QualityIdle

InitLoad == LoadStart /\ CacheFresh /\ LateIdle /\ BatchIdle /\ ToolsIdle
NextLoad == LoadIter \/ LoadExhausted
SpecLoad == InitLoad /\ [][NextLoad]_vars

InitCache == CacheFresh /\ LateIdle /\ LoadIdle /\ BatchIdle /\ ToolsIdle
NextCache ==
    \/ CacheGet
    \/ CacheSet
    \/ CacheGetOrCompute
    \/ CacheClearExpired
    \/ CacheClearAll
    \/ CacheGetStats
    \/ Tick
SpecCache == InitCache /\ [][NextCache]_vars

InitBatch == BatchStart /\ LoadIdle /\ CacheFresh /\ LateIdle /\ ToolsIdle
NextBatch ==
    \/ BatchEmpty
    \/ BatchPrompt
    \/ BatchParse
    \/ FallbackItem
    \/ FallbackReturn
SpecBatch == InitBatch /\ [][NextBatch]_vars

InitGateway == GatewayFresh /\ RepairIdle /\ PriorityIdle /\ QualityIdle
                   /\ LoadIdle /\ CacheFresh /\ LateIdle /\ BatchIdle
NextGateway == GatewayHit \/ GatewayComplete \/ GatewayError
SpecGateway == InitGateway /\ [][NextGateway]_vars

InitRepair == RepairStart /\ GatewayFresh /\ PriorityIdle /\ QualityIdle
                  /\ LoadIdle /\ CacheFresh /\ LateIdle /\ BatchIdle
NextRepair ==
    \/ RepairEmpty
    \/ RepairBasicClean
    \/ RepairFix
    \/ RepairDecode
    \/ RepairAggressive
SpecRepair == InitRepair /\ [][NextRepair]_vars

InitPriority == PriorityStart /\ GatewayFresh /\ RepairIdle /\ QualityIdle
                    /\ LoadIdle /\ CacheFresh /\ LateIdle /\ BatchIdle
NextPriority == PrioScore \/ PrioRaise \/ PrioReturn
SpecPriority == InitPriority /\ [][NextPriority]_vars

InitQuality == QualityStart /\ GatewayFresh /\ RepairIdle /\ PriorityIdle
                   /\ LoadIdle /\ CacheFresh /\ LateIdle /\ BatchIdle
NextQuality == GateValid \/ GateInvalid \/ GateRaise \/ GateReturn
SpecQuality == InitQuality /\ [][NextQuality]_vars

\* Any one of the components runs.
InitMonitor ==
    MonitorFresh /\ DriverIdle /\ PortfolioIdle /\ EndIdle /\ LoadIdle /\ CacheFresh
        /\ BatchIdle /\ ToolsIdle
NextMonitor ==
    \/ StartMonitoring
    \/ StopMonitoringCall
    \/ StopMonitoringJoin
    \/ \E t \in Threads : LoopCheck(t)
    \/ \E t \in Threads : LoopRecord(t)
    \/ \E t \in Threads : LoopRecordFails(t)
    \/ \E t \in Threads : LoopSleep(t)
SpecMonitor == InitMonitor /\ [][NextMonitor]_vars

InitDriver ==
    DriverStart /\ MonitorFresh /\ PortfolioIdle /\ EndIdle /\ LoadIdle /\ CacheFresh
        /\ BatchIdle /\ ToolsIdle
NextDriver == DriverEmpty \/ DriverBatch \/ DriverReturn
SpecDriver == InitDriver /\ [][NextDriver]_vars

InitPortfolio ==
    PortfolioStart /\ MonitorFresh /\ DriverIdle /\ EndIdle /\ LoadIdle /\ CacheFresh
        /\ BatchIdle /\ ToolsIdle
NextPortfolio == PortfolioFields \/ AllocationAdd \/ AllocationSkip \/ PortfolioReturn
SpecPortfolio == InitPortfolio /\ [][NextPortfolio]_vars

EarlyIdle ==
    LoadIdle /\ CacheFresh /\ BatchIdle /\ ToolsIdle /\ MonitorFresh /\ DriverIdle
        /\ PortfolioIdle

InitAsync == AsyncStart /\ RetryIdle /\ EarlyIdle
NextAsync ==
    \/ \E t \in Tasks : TaskStart(t)
    \/ \E t \in Tasks : TaskWake(t)
    \/ \E t \in Tasks : ExecutorRun(t)
    \/ \E t \in Tasks : TaskResume(t)
SpecAsync == InitAsync /\ [][NextAsync]_vars

InitRetry == RetryStart /\ AsyncIdle /\ EarlyIdle
NextRetry == RetrySuccess \/ RetryFailure \/ RetryExhausted
SpecRetry == InitRetry /\ [][NextRetry]_vars
\* the loop is not suspended for ever: a turn that can be taken is taken
SpecRetryLive == SpecRetry /\ WF_vars(NextRetry)

Init ==
    \/ InitLoad \/ InitCache \/ InitBatch
    \/ InitGateway \/ InitRepair \/ InitPriority \/ InitQuality
    \/ InitMonitor \/ InitDriver \/ InitPortfolio
    \/ InitAsync \/ InitRetry
Next ==
    \/ NextLoad \/ NextCache \/ NextBatch
    \/ NextGateway \/ NextRepair \/ NextPriority \/ NextQuality
    \/ NextMonitor \/ NextDriver \/ NextPortfolio
    \/ NextAsync \/ NextRetry
Spec == Init /\ [][Next]_vars

(***************************************************************************)
(* C1: the list _load_news_batch returns holds no two items with the same  *)
(* non-empty id and no two items with the same content fingerprint.        *)
(***************************************************************************)
C1_NoDuplicateReturned ==
    loadPc = "done" =>
        \A i, j \in 1..Len(all_news) :
            i # j =>
                /\ ~(all_news[i].id # EmptyId /\ all_news[i].id = all_news[j].id)
                /\ _get_content_hash(all_news[i].content)
                       # _get_content_hash(all_news[j].content)

\* A finished scan that met an id duplicate and a fingerprint duplicate of
\* different content, and kept two items.
C1_Witness ==
    /\ loadPc = "done"
    /\ Len(all_news) >= 2
    /\ \E i, j \in 1..Len(scanned) :
          i < j /\ scanned[i].id # EmptyId /\ scanned[i].id = scanned[j].id
    /\ \E i, j \in 1..Len(scanned) :
          /\ i < j
          /\ scanned[i].content # scanned[j].content
          /\ scanned[i].id # scanned[j].id
          /\ _get_content_hash(scanned[i].content)
                = _get_content_hash(scanned[j].content)

(***************************************************************************)
(* C2: after every iteration of the scan loop and when it ends,            *)
(* news_count = duplicate_count + len(all_news).                           *)
(***************************************************************************)
C2_CountsAddUp == news_count = duplicate_count + Len(all_news)

\* A finished scan that counted duplicates and kept items.
C2_Witness ==
    /\ loadPc = "done"
    /\ duplicate_count >= 2
    /\ Len(all_news) >= 2

(***************************************************************************)
(* C3: for every target count N (N = 0 included) at most N items are       *)
(* returned, and no source item is read after the one whose acceptance     *)
(* made the unique count reach N.                                          *)
(***************************************************************************)
C3_AtMostN ==
    /\ loadPc = "done" => Len(all_news) <= size
    /\ Len(all_news) >= size => loadPc = "done" \/ scanned = <<>>
(***************************************************************************)
(* C4: two consecutive get_or_compute calls with the same key inside the   *)
(* TTL window invoke the compute function exactly once, whatever it        *)
(* returns (None and empty values included), and the second call returns   *)
(* the value the first one stored.                                         *)
(***************************************************************************)
\* lastOp and prevOp are two get_or_compute calls on one key, the second made
\* before the entry the first one left has expired.
TwoCallsInWindow ==
    /\ prevOp.op = "goc"
    /\ lastOp.op = "goc"
    /\ prevOp.key = lastOp.key
    /\ lastOp.at < prevOp.expire_time

C4_ComputeOnce ==
    TwoCallsInWindow /\ prevOp.computed =>
        /\ ~lastOp.computed
        /\ lastOp.result = prevOp.result

\* The same statement for compute functions that do not return None: it holds.
C4_ComputeOnceNotNone ==
    TwoCallsInWindow /\ prevOp.computed /\ prevOp.result # NoneValue =>
        /\ ~lastOp.computed
        /\ lastOp.result = prevOp.result

\* Two calls in the window, the first of which computed an empty value.
C4_WitnessEmptyValue ==
    /\ TwoCallsInWindow
    /\ prevOp.computed
    /\ prevOp.result = ""
    /\ lastOp.at > prevOp.at
(***************************************************************************)
(* Predicates on the batch run that the claims C5..C10 share.              *)
(***************************************************************************)
\* _process_news_batch is past _parse_batch_response.
PastParse == batchPc \in {"parsed", "fallback", "done"} /\ news_batch # <<>>

\* _process_news_batch has returned.
BatchReturned == batchPc \in {"parsed", "done"}

\* The elements the response lists are event records: each news_index is an
\* integer or absent.
ListsRecords(shape) == \A i \in 1..Len(shape.ixs) : shape.ixs[i].kind # "string"

\* The response is a well-formed list of event records, of any length.
IsEventList(shape) == shape.form \in WellFormedForms /\ ListsRecords(shape)

(***************************************************************************)
(* C5: when the batch response cannot be parsed, the fallback performs     *)
(* exactly one single-item extraction per item, in batch order, and every  *)
(* extraction adds exactly one event, whatever the oracle answers: n items *)
(* give n events.                                                          *)
(***************************************************************************)
C5_FallbackOneEventPerItem ==
    /\ PastParse /\ batchShape.form \in NoObjectForms => parseRaised
    /\ parseRaised =>
          /\ Len(events) = Len(singleOrder)
          /\ \A k \in 1..Len(singleOrder) : singleOrder[k] = k
          /\ batchPc = "done" => Len(singleOrder) = Len(news_batch)

\* A full batch answered with prose went through the fallback, which produced
\* a parsed event and a default event.
C5_Witness ==
    /\ batchPc = "done"
    /\ batchShape.form = "prose"
    /\ Len(news_batch) = MaxBatch
    /\ \E i, j \in 1..Len(events) :
          events[i].origin = "single" /\ events[j].origin # "single"

(***************************************************************************)
(* C6: a non-empty batch issues exactly one batch-prompt invocation and    *)
(* then either returns the parsed events without any single-item           *)
(* invocation, or enters the per-item fallback after the parse raised; a   *)
(* response that is a list of event records never triggers the fallback,   *)
(* whatever its length.                                                    *)
(***************************************************************************)
C6_OnePromptThenParsedOrFallback ==
    /\ batchCalls = (IF news_batch # <<>> /\ batchPc # "pending" THEN 1 ELSE 0)
    /\ batchPc = "parsed" => singleOrder = <<>> /\ ~parseRaised
    /\ batchPc = "fallback" \/ singleOrder # <<>> => parseRaised
    /\ batchPc = "done" /\ news_batch # <<>> => parseRaised
    /\ PastParse /\ IsEventList(batchShape) => batchPc = "parsed"

\* A response with fewer event records than the batch has items was parsed.
C6_Witness ==
    /\ batchPc = "parsed"
    /\ IsEventList(batchShape)
    /\ events # <<>>
    /\ Len(events) < Len(news_batch)

(***************************************************************************)
(* C7: whenever the batch response yields no list of event records (no     *)
(* JSON object at all, an error-tagged string, a JSON object without a     *)
(* batch_events list), single-item extraction runs for every item.         *)
(***************************************************************************)
C7_FallbackWithoutEventList ==
    PastParse /\ batchShape.form \in NoObjectForms \cup NoListForms =>
        /\ parseRaised
        /\ batchPc = "done" => Len(singleOrder) = Len(news_batch)

(***************************************************************************)
(* C8: a response that is a well-formed event list except for a missing    *)
(* closing brace is repaired and parsed into one event per listed element, *)
(* without per-item fallback.                                              *)
(***************************************************************************)
C8_MissingBraceRepaired ==
    PastParse /\ batchShape.form = "missing_brace" /\ ListsRecords(batchShape)
        /\ batchShape.ixs # <<>> =>
            /\ batchPc = "parsed"
            /\ Len(events) = Len(batchShape.ixs)

(***************************************************************************)
(* C9: when a batch response parses, never more events are returned than   *)
(* the batch has items.                                                    *)
(***************************************************************************)
C9_AtMostOnePerItem == batchPc = "parsed" => Len(events) <= Len(news_batch)

(***************************************************************************)
(* C9 amended: when a batch response parses, every element of its          *)
(* batch_events list is returned, in response order, also the elements     *)
(* beyond the number of items.                                             *)
(***************************************************************************)
C9_AllElementsReturned ==
    batchPc = "parsed" /\ IsEventList(batchShape) =>
        /\ Len(events) = Len(batchShape.ixs)
        /\ \A i \in 1..Len(batchShape.ixs) :
              IF batchShape.ixs[i].kind = "int"
              THEN ObjGet(events[i].json, "news_index", JNull) = JNum(batchShape.ixs[i].n)
              ELSE ~ObjHas(events[i].json, "news_index")

\* A parsed response returned more events than the batch has items.
C9_Witness ==
    /\ batchPc = "parsed"
    /\ IsEventList(batchShape)
    /\ Len(events) > Len(news_batch)

(***************************************************************************)
(* C10: every event _process_news_batch returns, on the batch path or on   *)
(* the fallback path, carries source_file / source_line of the item it was *)
(* derived from.                                                           *)
(***************************************************************************)
C10_EveryEventHasProvenance ==
    BatchReturned =>
        \A i \in 1..Len(events) :
            /\ events[i].prov # NoProvenance
            /\ parseRaised => events[i].prov = news_batch[i].source_line

(***************************************************************************)
(* The oracle gateway's memoization.                                       *)
(***************************************************************************)
\* C11: get_completion returns a stored response only to a request whose
\* (system message, prompt) pair equals the pair of the request that stored
\* it; requests with different prompts never get each other's response.
C11_CacheKeyedByPrompt ==
    lastRequest.hit =>
        \E e \in storedBy :
            /\ e.key = cache_key(lastRequest.system, lastRequest.prompt)
            /\ e.system = lastRequest.system
            /\ e.prompt = lastRequest.prompt

(***************************************************************************)
(* The response repair pipeline.                                           *)
(***************************************************************************)
\* C12: for any input text, the empty one included, safe_json_parse returns
\* a decoded value or the fallback object (never nothing, never an
\* exception).
C12_DecodedOrFallback == repairPc = "returned" => repairResult.kind = "value"

\* C13: for a well-formed JSON object text, safe_json_parse returns exactly
\* the object that decoding the text directly returns.
C13_RoundTrip ==
    repairPc = "returned" /\ loads(json_str).ok /\ loads(json_str).val.t = "obj" =>
        repairResult = Decoded(loads(json_str).val)

(***************************************************************************)
(* The priority scorer.                                                    *)
(***************************************************************************)
\* the score given to the input event at position p
ScoreOf(p) ==
    scored_events[CHOOSE k \in 1..Len(scored_events) : scored_events[k].pos = p].priority_score

\* C14: of two events identical except for confidence 0.9 and 0.2, the
\* one with confidence 0.9 gets the strictly higher score.
C14_HigherConfidenceScoresHigher ==
    prioPc = "returned" =>
        \A i, j \in 1..Len(prioInput) :
            prioInput[i].confidence = 9 /\ prioInput[j] = [prioInput[i] EXCEPT !.confidence = 2]
                => ScoreOf(i) > ScoreOf(j)

\* C15: of two events identical except for the timestamp, the one that is 2
\* hours old gets a strictly lower score than the one that is 30 minutes old.
C15_OlderScoresLower ==
    prioPc = "returned" =>
        \A i, j \in 1..Len(prioInput) :
            /\ prioInput[i].timestamp = EpochTimestamp(120)
            /\ prioInput[j] = [prioInput[i] EXCEPT !.timestamp = EpochTimestamp(30)]
            => ScoreOf(i) < ScoreOf(j)

\* C16: every event prioritize_events returns has a score in [0, 100] and
\* the level its score falls in: critical from 80, high from 60, medium
\* from 40, low from 20, minimal below.
C16_ScoreBoundedAndLevelled ==
    prioPc = "returned" =>
        \A k \in 1..Len(scored_events) :
            LET score == scored_events[k].priority_score
                level == scored_events[k].priority_level
            IN /\ 0 <= score /\ score <= 100 * 100
               /\ level = "critical" <=> score >= 80 * 100
               /\ level = "high" <=> score >= 60 * 100 /\ score < 80 * 100
               /\ level = "medium" <=> score >= 40 * 100 /\ score < 60 * 100
               /\ level = "low" <=> score >= 20 * 100 /\ score < 40 * 100
               /\ level = "minimal" <=> score < 20 * 100

\* prioritize_events has returned a saturated score and a score below 20
C16_Witness ==
    /\ prioPc = "returned"
    /\ \E k \in 1..Len(scored_events) :
          scored_events[k].priority_score = 100 * 100
              /\ scored_events[k].priority_level = "critical"
    /\ \E k \in 1..Len(scored_events) : scored_events[k].priority_level = "minimal"

\* C17: prioritize_events returns the stable descending sort of its input:
\* every input event exactly once, unchanged but for the two added fields,
\* scores non-increasing, equal scores in input order.
C17_StableDescendingSort ==
    prioPc = "returned" =>
        /\ Len(scored_events) = Len(prioInput)
        /\ \A p \in 1..Len(prioInput) :
              \E k \in 1..Len(scored_events) : scored_events[k].pos = p
        /\ \A k \in 1..Len(scored_events) :
              scored_events[k].event = prioInput[scored_events[k].pos]
        /\ \A k, m \in 1..Len(scored_events) :
              k < m =>
                 /\ scored_events[k].priority_score >= scored_events[m].priority_score
                 /\ scored_events[k].priority_score = scored_events[m].priority_score
                       => scored_events[k].pos < scored_events[m].pos

\* two different events with one score have been returned
C17_Witness ==
    /\ prioPc = "returned"
    /\ Len(scored_events) >= 2
    /\ scored_events[1].priority_score = scored_events[2].priority_score
    /\ scored_events[1].event # scored_events[2].event

(***************************************************************************)
(* The quality gate.                                                       *)
(***************************************************************************)
\* the positions of the records that have no error of their own
ValidPositions(records) ==
    {i \in 1..Len(records) :
        LET r == _validate_single_event(records[i]) IN ~r.raised /\ r.errors = <<>>}

\* C18: is_valid is True exactly when valid records / records >= 0.8, the
\* fraction being 0 for no records.
C18_ValidAtEightyPercent ==
    gatePc = "returned" =>
        (gateResult = "valid" <=>
            /\ Len(gateInput) > 0
            /\ 10 * Cardinality(ValidPositions(gateInput)) >= 8 * Len(gateInput))

\* 9 valid records out of 10 have passed
C18_Witness ==
    /\ gatePc = "returned"
    /\ Len(gateInput) = 10
    /\ Cardinality(ValidPositions(gateInput)) = 9
    /\ gateResult = "valid"

\* C19: the gate leaves the records as they were, and its error list has
\* one entry per invalid record, in order, naming its 1-based position, so
\* that valid records + error entries = records.
C19_ReportsWithoutChanging ==
    /\ gateEvents = gateInput
    /\ gatePc = "returned" =>
          /\ valid_count + Len(errors) = Len(gateInput)
          /\ {errors[k].position : k \in 1..Len(errors)}
                = (1..Len(gateInput)) \ ValidPositions(gateInput)
          /\ \A k, m \in 1..Len(errors) : k < m => errors[k].position < errors[m].position

\* the gate has returned errors for some records, the first among them
C19_Witness ==
    /\ gatePc = "returned"
    /\ valid_count > 0
    /\ Len(errors) >= 2
    /\ errors[1].position = 1

\* C20: validate_event_extraction returns for every list of records,
\* whatever the types of their fields; it never raises.
C20_NeverRaises == gatePc # "raised"

\* C21: prioritize_events returns a result for every list of events the
\* batch engine can hand it, an event without impact_level included;
\* scoring never raises.
C21_ScoringNeverRaises == prioPc # "raised"

\* C22: a failed oracle call (the post raises, times out, answers with a
\* status other than 200 or with a body without the expected field) makes
\* get_completion return a text that starts with "Error:"; it does not raise.
C22_FailureReturnsErrorText ==
    lastRequest.failure.kind # "none" =>
        /\ ~lastRequest.raised
        /\ Len(lastRequest.result) >= 1
        /\ lastRequest.result[1] = ErrorMarker

C22_Witness ==
    /\ lastRequest.failure.kind = "no_field"
    /\ ~lastRequest.raised
    /\ lastRequest.result = <<ErrorMarker, "'response'">>

(***************************************************************************)
(* SmartCache's counters.                                                  *)
(***************************************************************************)
\* C23 as stated: hits + misses is the number of lookups made, and the
\* hit_ratio get_stats reports is exactly hits / max(1, hits + misses).
C23_ExactHitRatio ==
    /\ stats.hits + stats.misses = lookups
    /\ cache_stats.called =>
          cache_stats.hit_ratio * AtLeastOne(cache_stats.hits + cache_stats.misses)
              = RatioScale * cache_stats.hits

\* C23 amended: hits + misses is the number of lookups made, and the
\* hit_ratio get_stats reports is hits / max(1, hits + misses) rounded to
\* four decimal places: the ten-thousandth nearest to the quotient; it is 0
\* before any lookup and always within [0, 1].
C23_RoundedHitRatio ==
    /\ stats.hits + stats.misses = lookups
    /\ get_stats(stats).hit_ratio \in 0..RatioScale
    /\ lookups = 0 => get_stats(stats).hit_ratio = 0
    /\ cache_stats.called =>
          LET total == AtLeastOne(cache_stats.hits + cache_stats.misses)
              diff == RatioScale * cache_stats.hits - cache_stats.hit_ratio * total
          IN /\ 2 * diff <= total
             /\ 2 * diff >= 0 - total
             /\ cache_stats.hit_ratio \in 0..RatioScale

C23_Witness ==
    /\ cache_stats.called
    /\ cache_stats.hits = 2
    /\ cache_stats.misses = 1
    /\ cache_stats.hit_ratio = 6667
    /\ lookups = 3
    /\ lastOp.op = "get"
    /\ prevOp.op = "get"

(***************************************************************************)
(* The sampler of PerformanceMonitor.                                      *)
(***************************************************************************)
\* C24: once stop_monitoring has returned (and start_monitoring has not been
\* called again), no sampler thread records a further sample, whatever the
\* sequence of start_monitoring and stop_monitoring calls before it.
C24_NoSampleAfterStop == [][monitorState = "stopped" => samples' = samples]_vars

(***************************************************************************)
(* What the dedup scan keeps.                                              *)
(***************************************************************************)
\* the elements of seq at the positions in K, in order
RECURSIVE SelectAt(_, _, _)
SelectAt(seq, K, i) ==
    IF i > Len(seq) THEN <<>>
    ELSE (IF i \in K THEN <<seq[i]>> ELSE <<>>) \o SelectAt(seq, K, i + 1)

\* K is a set of source positions whose items, in source order, are the
\* kept list, and every other scanned item repeats the non-empty id or the
\* content fingerprint of an item of K before it.
KeptAt(K) ==
    /\ SelectAt(scanned, K, 1) = all_news
    /\ scanned # <<>> => 1 \in K
    /\ \A j \in (1..Len(scanned)) \ K :
          \E k \in K :
             /\ k < j
             /\ \/ scanned[j].id # EmptyId /\ scanned[j].id = scanned[k].id
                \/ _get_content_hash(scanned[j].content)
                       = _get_content_hash(scanned[k].content)

\* C25: the list _load_news_batch returns is a subsequence of the source in
\* source order, the first source item is kept, and an item is discarded
\* only if its non-empty id or its content fingerprint equals that of an
\* earlier kept item.
C25_KeepsFirstOccurrences ==
    loadPc \in {"loop", "done"} =>
        \E K \in SUBSET (1..Len(scanned)) : KeptAt(K)

C25_Witness ==
    /\ loadPc = "done"
    /\ Len(scanned) = 4
    /\ all_news = <<scanned[1], scanned[4]>>
    /\ scanned[2].id = scanned[1].id
    /\ scanned[2].content # scanned[1].content
    /\ scanned[3].id = EmptyId
    /\ _get_content_hash(scanned[3].content) = _get_content_hash(scanned[1].content)

(***************************************************************************)
(* C26: when a batch response parses, the k-th element of the returned     *)
(* list carries the provenance of the k-th item of the batch, whatever     *)
(* news_index the oracle wrote into the element.                           *)
(***************************************************************************)
C26_PositionalProvenance ==
    batchPc = "parsed" /\ IsEventList(batchShape) =>
        \A k \in 1..Len(events) :
            k <= Len(news_batch) => events[k].prov = news_batch[k].source_line

(***************************************************************************)
(* The batch driver.                                                       *)
(***************************************************************************)
RECURSIVE ConcatNews(_, _), ConcatEvents(_, _)
\* the batches of the first m calls one after another, and their event lists
ConcatNews(log, m) == IF m = 0 THEN <<>> ELSE ConcatNews(log, m - 1) \o log[m].news
ConcatEvents(log, m) == IF m = 0 THEN <<>> ELSE ConcatEvents(log, m - 1) \o log[m].events

\* C27: _batch_extract_events makes ceil(n / batch_size) calls of
\* _process_news_batch, on consecutive batches of at most batch_size items,
\* all but the last of exactly batch_size, that together are the item list
\* (every item in exactly one batch, in index order); it returns the event
\* lists of the calls concatenated in call order, and total_processed = n.
C27_ConsecutiveBatchesConcatenated ==
    driverPc = "returned" =>
        LET n == Len(news_items)
            m == Len(batchLog)
        IN /\ m * batch_size >= n
           /\ m > 0 => (m - 1) * batch_size < n
           /\ \A b \in 1..m :
                 /\ Len(batchLog[b].news) <= batch_size
                 /\ Len(batchLog[b].news) >= 1
                 /\ b < m => Len(batchLog[b].news) = batch_size
           /\ ConcatNews(batchLog, m) = news_items
           /\ driverResult.extracted_events = ConcatEvents(batchLog, m)
           /\ driverResult.total_processed = n

C27_Witness ==
    /\ driverPc = "returned"
    /\ Len(news_items) = 5
    /\ batch_size = 2
    /\ Len(batchLog) = 3
    /\ batchLog[3].news = <<5>>
    /\ Len(batchLog[1].events) = 2
    /\ Len(batchLog[2].events) = 0
    /\ Len(batchLog[3].events) = 1
    /\ Len(driverResult.extracted_events) = 3

\* the record at position i has an error entry / one with a content error
Reported(i) == \E k \in 1..Len(errors) : errors[k].position = i
ReportedContent(i) ==
    \E k \in 1..Len(errors) :
        /\ errors[k].position = i
        /\ \E m \in 1..Len(errors[k].messages) : errors[k].messages[m].kind = "content"

\* C28: a record passes the gate only if core_event, impact_level,
\* time_horizon, affected_assets and confidence are all present; a record
\* without confidence or without affected_assets gets an error entry.
C28_AllFiveFieldsRequired ==
    gatePc = "returned" =>
        \A i \in 1..Len(gateInput) :
            (\/ gateInput[i].core_event.t = "absent"
             \/ gateInput[i].impact_level.t = "absent"
             \/ gateInput[i].time_horizon.t = "absent"
             \/ gateInput[i].affected_assets.t = "absent"
             \/ gateInput[i].confidence.t = "absent") => Reported(i)

\* C29: the gate accepts a core_event of 5 to 500 characters, 5 and 500
\* included, and rejects the shorter and the longer ones.
C29_LengthBoundsInclusive ==
    gatePc = "returned" =>
        \A i \in 1..Len(gateInput) :
            gateInput[i].core_event.t = "str" =>
                (ReportedContent(i) <=>
                    (gateInput[i].core_event.n < 5 \/ gateInput[i].core_event.n > 500))

(***************************************************************************)
(* The allocation check.                                                   *)
(***************************************************************************)
RECURSIVE DeclaredSum(_, _)
\* the sum of the target_weight values the first m entries declare
DeclaredSum(entries, m) ==
    IF m = 0 THEN 0
    ELSE DeclaredSum(entries, m - 1)
            + (IF entries[m].form = "undeclared" THEN 0 ELSE entries[m].value)

AllocationPassed ==
    \A k \in 1..Len(portErrors) : portErrors[k].kind # "allocation"

\* C30: the allocation check passes exactly when the declared target_weight
\* values sum to a value in [95, 105], whether a weight is written "60%",
\* "60" or 60.
C30_AllocationSumAnyForm ==
    portPc = "returned" =>
        LET entries == optimization.target_allocation.entries
            total == DeclaredSum(entries, Len(entries))
        IN AllocationPassed <=> (LowestSum <= total /\ total <= HighestSum)

(***************************************************************************)
(* The priority score as a formula.                                        *)
(***************************************************************************)
\* the decay of a timestamp in tenths: 1.0 without a timestamp, by the time
\* elapsed for a timestamp that names a time, 0.7 for one that names none
DecayByElapsedTime(t) ==
    IF t.fmt = "none" THEN 10
    ELSE IF t.fmt = "text" THEN 7
    ELSE IF t.age <= 60 THEN 10
    ELSE IF t.age <= 24 * 60 THEN 8
    ELSE IF t.age <= 72 * 60 THEN 5
    ELSE 3

\* min(100, max(0, ((impactWeight + timeWeight) * confidence + bonuses) * decay))
\* in hundredths
ScoreFormula(e) ==
    LET impactWeight == CASE e.impact_level = "low" -> 10
                          [] e.impact_level = "medium" -> 50
                          [] e.impact_level = "high" -> 100
        timeWeight == CASE e.time_horizon = "short" -> 30
                        [] e.time_horizon = "mid" -> 20
                        [] e.time_horizon = "long" -> 10
        raw == ((impactWeight + timeWeight) * e.confidence
                    + _apply_priority_rules(e).bonus * 10) * DecayByElapsedTime(e.timestamp)
    IN IF raw > 10000 THEN 10000 ELSE IF raw < 0 THEN 0 ELSE raw

\* C31: the score of every event with impact_level in {low, medium, high},
\* time_horizon in {short, mid, long} and confidence in [0, 1] is the
\* formula's, the decay being the one of the time elapsed since the
\* timestamp (0.7 only for a timestamp that cannot be parsed).
C31_ScoreIsFormula ==
    \A k \in 1..Len(scored_events) :
        scored_events[k].event.impact_level \in {"low", "medium", "high"} =>
            scored_events[k].priority_score = ScoreFormula(scored_events[k].event)

(***************************************************************************)
(* The rule bonus.                                                         *)
(***************************************************************************)
\* the condition holds for the event; one on a field the event does not
\* have holds not
ConditionHolds(event, condition) ==
    CASE condition.field = "time_horizon" -> event.time_horizon = condition.value
      [] condition.field = "impact_level" ->
            /\ event.impact_level # Absent
            /\ IF condition.operator = "equals"
               THEN event.impact_level = condition.value
               ELSE LevelIndex(event.impact_level) >= LevelIndex(condition.value)
      [] condition.field = "core_event" -> event.core_event = condition.value
      [] condition.field = "affected_assets" ->
            /\ event.affected_assets.present
            /\ \E k \in 1..Len(event.affected_assets.items) :
                    event.affected_assets.items[k] = condition.value

RECURSIVE SumOfMatching(_, _)
\* the scores of the first k rules all of whose conditions hold, added up
SumOfMatching(event, k) ==
    IF k = 0 THEN 0
    ELSE SumOfMatching(event, k - 1)
            + (IF \A j \in 1..Len(priority_rules[k].conditions) :
                        ConditionHolds(event, priority_rules[k].conditions[j])
               THEN priority_rules[k].score ELSE 0)

\* C32: the rule bonus of an event is the sum of the scores of the rules
\* all of whose conditions hold for it; a condition on a field the event
\* does not have (a keyword condition without core_event, an overlap
\* condition without affected_assets) does not hold.
C32_BonusIsSumOfMatchingRules ==
    \A k \in 1..Len(scored_events) :
        _apply_priority_rules(scored_events[k].event).bonus
            = SumOfMatching(scored_events[k].event, Len(priority_rules))

(***************************************************************************)
(* The pipeline run: _batch_extract_events, then prioritize_events on the  *)
(* events it returned (main.py:65-73).                                     *)
(***************************************************************************)
\* The item read from line k of the news file carries the time of its news
\* as a date text without a zone: the first line is 80 hours old, the
\* second two hours, every later one half an hour.
ItemTimestamp(source_line) ==
    [fmt |-> "iso", age |-> CASE source_line = 1 -> 80 * 60
                              [] source_line = 2 -> 120
                              [] OTHER -> 30]

\* event.get('timestamp') of an event _parse_batch_response returned: the
\* key of the element of the response, if it has one.  Line 354 stores the
\* item's timestamp under original_timestamp, no line stores it under
\* timestamp.
TimestampOfEvent(ev) ==
    LET stamp == ObjGet(ev.json, "timestamp", JNull) IN
    CASE stamp.t = "str" -> IF stamp.s = "" THEN NoTimestamp ELSE UnparseableTimestamp
      [] stamp.t = "num" -> IF stamp.n = 0 THEN NoTimestamp ELSE EpochTimestamp(80 * 60)
      [] OTHER -> NoTimestamp

\* C33: in the pipeline run the time-decay multiplier of an event of the
\* batch engine is the one of the time elapsed since the timestamp of its
\* source item: the event of an item more than 72 hours old is scored with
\* 0.3, not with 1.0.
C33_DecayOfSourceItemAge ==
    BatchReturned =>
        \A i \in 1..Len(events) :
            (events[i].origin = "batch" /\ events[i].prov # NoProvenance) =>
                _calculate_time_penalty([timestamp |-> TimestampOfEvent(events[i])])
                    = DecayByElapsedTime(ItemTimestamp(events[i].prov))

(***************************************************************************)
(* The repair stages applied once more.                                    *)
(***************************************************************************)
\* C34: each repair stage is idempotent: _basic_clean applied to a text it
\* returned returns the same text, and so does _fix_common_json_issues,
\* fences and backslash-escaped quotes included.
C34_StagesIdempotent ==
    /\ repairPc = "cleaned" => _basic_clean(cleaned_text) = cleaned_text
    /\ repairPc = "fixed" => _fix_common_json_issues(cleaned_text) = cleaned_text

(***************************************************************************)
(* Cache keys of equal data; equal items of one batch.                     *)
(***************************************************************************)
RECURSIVE EqualAsData(_, _)
\* the two values are equal as data: objects with the same fields whatever
\* their insertion order, lists with equal elements in the same order
EqualAsData(a, b) ==
    /\ a.t = b.t
    /\ CASE a.t = "obj" ->
              /\ {a.keys[i] : i \in 1..Len(a.keys)} = {b.keys[i] : i \in 1..Len(b.keys)}
              /\ \A i \in 1..Len(a.keys) :
                    EqualAsData(ObjGet(a, a.keys[i], JNull), ObjGet(b, a.keys[i], JNull))
         [] a.t = "list" ->
              /\ Len(a.items) = Len(b.items)
              /\ \A i \in 1..Len(a.items) : EqualAsData(a.items[i], b.items[i])
         [] OTHER -> a = b

\* C35: get_key gives two inputs that are equal as data the same key: the
\* insertion order of the fields of an object makes no difference, at any
\* depth, also for objects inside a top-level list.
C35_EqualDataSameKey ==
    \A i, j \in Tasks :
        (taskKey[i] # NoKey /\ taskKey[j] # NoKey
            /\ EqualAsData(asyncItems[i], asyncItems[j])) => taskKey[i] = taskKey[j]

\* C36: when a batch on a cold cache holds two equal items, process_func is
\* called on one of them only, and the task of the second returns the
\* value the first stored.
C36_EqualItemsProcessedOnce ==
    \A i, j \in Tasks :
        (/\ i < j
         /\ asyncItems[i] = asyncItems[j]
         /\ \A u \in 1..(i - 1) : asyncItems[u] # asyncItems[i]
         /\ taskPc[i] = "done" /\ taskPc[j] = "done"
         /\ taskResult[i].kind = "value")
            => /\ \A k \in 1..Len(invoked) : invoked[k] # j
               /\ taskResult[j] = taskResult[i]

(***************************************************************************)
(* The retry wrapper.                                                      *)
(***************************************************************************)
\* the k-th get_completion call failed: it raised or returned an error text
AttemptFailed(k) == retryLog[k].kind = "raise" \/ retryLog[k].text[1] = ErrorMarker

\* at most max_retries calls; what is returned is the result of the last
\* call, the first that did not fail, or the all-failed text after
\* max_retries failed calls
RetryOutcome ==
    /\ Len(retryLog) <= max_retries
    /\ retryPc \in {"loop", "returned"}
    /\ retryPc = "returned" =>
          \/ /\ retryLog # <<>>
             /\ ~AttemptFailed(Len(retryLog))
             /\ retryResult = retryLog[Len(retryLog)].text
             /\ \A k \in 1..(Len(retryLog) - 1) : AttemptFailed(k)
          \/ /\ retryResult = AllFailedText
             /\ Len(retryLog) = max_retries
             /\ \A k \in 1..Len(retryLog) : AttemptFailed(k)

\* C37: get_completion_with_retry makes at most max_retries calls, returns
\* the first result that does not start with "Error:" and makes no call
\* after it, returns "Error: All retry attempts failed" when every call
\* failed or raised, raises nothing, and returns for every max_retries >= 0.
C37_RetryBoundedAndReturns == []RetryOutcome /\ <>(retryPc = "returned")

\* two failed calls, one of them raising, then a call that succeeds
C37_Witness ==
    /\ retryPc = "returned"
    /\ max_retries = 3
    /\ Len(retryLog) = 3
    /\ retryLog[1].kind = "raise"
    /\ retryLog[2].kind = "text"
    /\ retryResult = retryLog[3].text
    /\ retryResult \in ResponseTexts

(***************************************************************************)
(* Single-item extraction of an answer that follows the prompt.            *)
(***************************************************************************)
\* C38: when the oracle answers the single-item prompt with a well-formed
\* object of the fields the prompt asks for (core_event, impact_level,
\* time_horizon, affected_assets, investment_implication, confidence), the
\* item's event is that object, unchanged; a default event is returned only
\* for an answer that cannot be decoded or lacks one of these fields.
C38_SchemaAnswerIsTheEvent ==
    \A k \in 1..Len(schemaAnswers) :
        (schemaAnswers[k] /\ k <= Len(events)) =>
            /\ events[k].origin = "single"
            /\ events[k].json = json_loads(PromptSchemaText).val

(***************************************************************************)
(* What the gateway cache holds.                                           *)
(***************************************************************************)
\* every entry of the cache holds the text of a call that succeeded
OnlyResponsesCached == \A e \in llmCache : e.value \in ResponseTexts

\* a call that failed leaves the cache as it was
FailureWritesNothing == lastRequest'.failure # NoFailure => llmCache' = llmCache

\* C39: the error-tagged result of a failed call is never written to the
\* gateway cache; every cached entry holds the text of a successful call.
C39_OnlySuccessfulTextsCached == []OnlyResponsesCached /\ [][FailureWritesNothing]_vars

\* a call with use_cache failed while the cache held the text of an earlier
\* call, and its key has no entry
C39_Witness ==
    /\ lastRequest.failure # NoFailure
    /\ lastRequest.use_cache
    /\ llmCache # {}
    /\ ~Cached(cache_key(lastRequest.system, lastRequest.prompt))

====
